---- MODULE Spec2Model ----
(***************************************************************************)
(* A model of pycommonmark (commonmark.py): the line-driven block parser   *)
(* DocParser, the InlineParser it delegates to, and the reference map they *)
(* share.                                                                  *)
(*                                                                         *)
(* Strings are TLA+ strings.  Python indices are kept 0-based: CharAt(s,i) *)
(* is s[i] and Slice(s,a,b) is s[a:b].  A Python exception that leaves a   *)
(* function is the field exc of the value the operator returns; "none"     *)
(* means a normal return.  A loop that the code can never leave is the     *)
(* outcome "Hang".  The interpreter is the one setup.py declares           *)
(* (Python 2.7).                                                           *)
(***************************************************************************)
EXTENDS Integers, Sequences, FiniteSets, TLC

\* ------------------------------------------------------------------------
\* Bounds of the model.
\* ------------------------------------------------------------------------
MaxLines == 3
MaxParses == 2

\* ------------------------------------------------------------------------
\* Strings, Python style.
\* ------------------------------------------------------------------------
MinOf(S) == CHOOSE m \in S : \A n \in S : m <= n

CharAt(s, i) == SubSeq(s, i + 1, i + 1)

Slice(s, a, b) ==
  LET hi == IF b > Len(s) THEN Len(s) ELSE b
  IN  IF a >= hi THEN "" ELSE SubSeq(s, a + 1, hi)

From(s, a) == Slice(s, a, Len(s))

CharsOf(s) == { CharAt(s, i) : i \in 0..(Len(s) - 1) }

RECURSIVE Span(_, _, _)
\* The length of the longest run of characters of C in s from index i.
Span(s, i, C) ==
  IF i < Len(s) /\ CharAt(s, i) \in C THEN 1 + Span(s, i + 1, C) ELSE 0

RECURSIVE Join(_, _)
Join(strs, sep) ==
  IF Len(strs) = 0 THEN ""
  ELSE IF Len(strs) = 1 THEN strs[1]
  ELSE strs[1] \o sep \o Join(Tail(strs), sep)

RECURSIVE Spaces(_)
Spaces(n) == IF n <= 0 THEN "" ELSE " " \o Spaces(n - 1)

LowerLetters == "abcdefghijklmnopqrstuvwxyz"
UpperLetters == "ABCDEFGHIJKLMNOPQRSTUVWXYZ"
DigitChars == "0123456789"
Lowers == CharsOf(LowerLetters)
Uppers == CharsOf(UpperLetters)
Digits == CharsOf(DigitChars)
Alnum == Lowers \cup Uppers \cup Digits
\* \s of the re module
WhiteSpace == {" ", "\t", "\n", "\r", "\f"}

IndexIn(c, alphabet) == MinOf({ i \in 0..(Len(alphabet) - 1) : CharAt(alphabet, i) = c })

UpperChar(c) == IF c \in Lowers THEN CharAt(UpperLetters, IndexIn(c, LowerLetters)) ELSE c
LowerChar(c) == IF c \in Uppers THEN CharAt(LowerLetters, IndexIn(c, UpperLetters)) ELSE c

RECURSIVE MapChars(_, _)
\* s with every character replaced by its image: "U" upper, "L" lower case.
MapChars(s, how) ==
  IF Len(s) = 0 THEN ""
  ELSE (IF how = "U" THEN UpperChar(CharAt(s, 0)) ELSE LowerChar(CharAt(s, 0)))
       \o MapChars(From(s, 1), how)

Upper(s) == MapChars(s, "U")
Lower(s) == MapChars(s, "L")

\* str.strip(): whitespace removed at both ends.
LStrip(s) == From(s, Span(s, 0, WhiteSpace))
RECURSIVE RSpan(_, _)
RSpan(s, C) ==
  IF Len(s) > 0 /\ CharAt(s, Len(s) - 1) \in C THEN 1 + RSpan(Slice(s, 0, Len(s) - 1), C) ELSE 0
RStrip(s) == Slice(s, 0, Len(s) - RSpan(s, WhiteSpace))
Strip(s) == RStrip(LStrip(s))

RECURSIVE DigitsToInt(_)
\* int(s) for a string of decimal digits
DigitsToInt(s) ==
  IF Len(s) = 0 THEN 0
  ELSE 10 * DigitsToInt(Slice(s, 0, Len(s) - 1)) + IndexIn(CharAt(s, Len(s) - 1), DigitChars)

\* ------------------------------------------------------------------------
\* Regular expressions of the module, as the matchers they denote.
\* ------------------------------------------------------------------------
\* SANY admits no backquote inside a string: the model writes the backquote
\* of the input as the character BQ, and the input alphabet has no "^".
BQ == "^"

\* Nor does it admit the character \x00: the model writes the NUL of the input
\* as the character NUL, and the input alphabet has no ";", which no
\* expression of the module names.
NUL == ";"

ESCAPABLE == CharsOf("!\"#$%&'()*+,./:<=>?@[\\]_{|}~-") \cup {BQ}

block_tag_names ==
  { "article", "header", "aside", "hgroup", "iframe", "blockquote", "hr",
    "body", "li", "map", "button", "object", "canvas", "ol", "caption",
    "output", "col", "p", "colgroup", "pre", "dd", "progress", "div",
    "section", "dl", "table", "td", "dt", "tbody", "embed", "textarea",
    "fieldset", "tfoot", "figcaption", "th", "figure", "thead", "footer",
    "tr", "form", "ul", "h1", "h2", "h3", "h4", "h5", "h6", "video",
    "script", "style" }

\* s[i:] starts with the block tag name tag (re.I) followed by a character of C.
TagThen(s, i, C) ==
  \E tag \in block_tag_names :
     /\ Lower(Slice(s, i, i + Len(tag))) = tag
     /\ i + Len(tag) < Len(s)
     /\ CharAt(s, i + Len(tag)) \in C

\* reHtmlBlockOpen matches at index i of s
reHtmlBlockOpen(s, i) ==
  /\ i < Len(s)
  /\ CharAt(s, i) = "<"
  /\ \/ TagThen(s, i + 1, WhiteSpace \cup {"/", ">"})
     \/ (i + 1 < Len(s) /\ CharAt(s, i + 1) = "/" /\ TagThen(s, i + 2, WhiteSpace \cup {">"}))
     \/ (i + 1 < Len(s) /\ CharAt(s, i + 1) \in {"?", "!"})

\* reHrule matches the whole of r
reHrule(r) ==
  /\ Len(r) > 0
  /\ CharAt(r, 0) \in {"*", "_", "-"}
  /\ \A i \in 0..(Len(r) - 1) : CharAt(r, i) \in {CharAt(r, 0), " "}
  /\ Cardinality({ i \in 0..(Len(r) - 1) : CharAt(r, i) = CharAt(r, 0) }) >= 3

\* re.match(r'^\s*$', s)
is_blank(s) == Span(s, 0, WhiteSpace) = Len(s)

\* The result of unescape: the replacement text is the literal "$1".
RECURSIVE unescape(_)
unescape(s) ==
  IF Len(s) = 0 THEN ""
  ELSE IF CharAt(s, 0) = "\\" /\ Len(s) > 1 /\ CharAt(s, 1) \in ESCAPABLE
       THEN "$1" \o unescape(From(s, 2))
       ELSE CharAt(s, 0) \o unescape(From(s, 1))

RECURSIVE CollapseWs(_)
\* re.sub(r'\s+', ' ', s)
CollapseWs(s) ==
  IF Len(s) = 0 THEN ""
  ELSE IF CharAt(s, 0) \in WhiteSpace
       THEN " " \o CollapseWs(From(s, Span(s, 0, WhiteSpace)))
       ELSE CharAt(s, 0) \o CollapseWs(From(s, 1))

normalize_reference(s) == Upper(CollapseWs(Strip(s)))

\* match_at(re.compile(r'[^ ]'), line, offset): -1 stands for None
FirstNonSpace(line, offset) ==
  LET n == Span(line, offset, {" "})
  IN  IF offset + n < Len(line) THEN offset + n ELSE -1

RECURSIVE DetabFrom(_, _, _)
DetabFrom(text, i, last_stop) ==
  IF i >= Len(text) THEN ""
  ELSE IF CharAt(text, i) = "\t"
       THEN Spaces(4 - ((i - last_stop) % 4)) \o DetabFrom(text, i + 1, i + 1)
       ELSE CharAt(text, i) \o DetabFrom(text, i + 1, last_stop)

detab_line(text) == DetabFrom(text, 0, 0)


\* ------------------------------------------------------------------------
\* Scanners of the inline parser.  Each gives the length of the match of
\* its regular expression at index i of s, or -1 when it does not match.
\* ------------------------------------------------------------------------
\* \x00-\x20, as far as the alphabet of the model has them
Ctrl == WhiteSpace \cup {NUL}

\* [^\\()\x00-\x20]
REG_CHAR(c) == c \notin (Ctrl \cup {"\\", "(", ")"})

IsEscapedAt(s, i) == i + 1 < Len(s) /\ CharAt(s, i) = "\\" /\ CharAt(s, i + 1) \in ESCAPABLE

RECURSIVE TitleEnd(_, _, _)
\* One of the three quoted forms of reLinkTitle, opened before index i and
\* closed by the character close: (ESCAPED_CHAR|[^close\x00])* close, the
\* alternatives tried in the order of the expression.  The end index or -1.
TitleEnd(s, i, close) ==
  IF i >= Len(s) THEN -1
  ELSE LET viaEsc == IF IsEscapedAt(s, i) THEN TitleEnd(s, i + 2, close) ELSE -1
       IN  IF viaEsc # -1 THEN viaEsc
           ELSE IF CharAt(s, i) \notin {close, NUL} THEN TitleEnd(s, i + 1, close)
           ELSE IF CharAt(s, i) = close THEN i + 1
           ELSE -1

\* v under the name that F gives it, as an assignment to a local does
With(v, F(_)) == F(v)

\* An end index made relative to the start i of the match; -1 stays -1
RelEnd(e, i) == IF e = -1 THEN -1 ELSE e - i

\* The first alternative that matches
OrElse(a, b) == IF a # -1 THEN a ELSE b

\* InlineParser.peek: the character at pos, "" for None at the end
Peek(s, pos) == IF pos < Len(s) THEN CharAt(s, pos) ELSE ""

reLinkTitle(s, i) ==
  IF i >= Len(s) \/ CharAt(s, i) \notin {"\"", "'", "("} THEN -1
  ELSE RelEnd(TitleEnd(s, i + 1, IF CharAt(s, i) = "(" THEN ")" ELSE CharAt(s, i)), i)

RECURSIVE BracesEnd(_, _)
\* (?:[^<>\n\\\x00]|ESCAPED_CHAR|\\)*[>] from index i: the end index or -1
BracesEnd(s, i) ==
  IF i >= Len(s) THEN -1
  ELSE LET c == CharAt(s, i)
           viaChar == IF c \notin {"<", ">", "\n", "\\", NUL} THEN BracesEnd(s, i + 1) ELSE -1
           viaEsc == IF IsEscapedAt(s, i) THEN BracesEnd(s, i + 2) ELSE -1
           viaBackslash == IF c = "\\" THEN BracesEnd(s, i + 1) ELSE -1
       IN  IF viaChar # -1 THEN viaChar
           ELSE IF viaEsc # -1 THEN viaEsc
           ELSE IF viaBackslash # -1 THEN viaBackslash
           ELSE IF c = ">" THEN i + 1
           ELSE -1

reLinkDestinationBraces(s, i) ==
  IF i < Len(s) /\ CharAt(s, i) = "<" THEN RelEnd(BracesEnd(s, i + 1), i) ELSE -1

RECURSIVE InParensEnd(_, _)
\* (REG_CHAR|ESCAPED_CHAR)*\) from index i: the end index or -1
InParensEnd(s, i) ==
  IF i >= Len(s) THEN -1
  ELSE IF REG_CHAR(CharAt(s, i)) THEN InParensEnd(s, i + 1)
  ELSE IF IsEscapedAt(s, i) THEN InParensEnd(s, i + 2)
  ELSE IF CharAt(s, i) = ")" THEN i + 1
  ELSE -1

RECURSIVE DestEnd(_, _)
\* (?:REG_CHAR+|ESCAPED_CHAR|IN_PARENS_NOSP)* from index i: the end index
DestEnd(s, i) ==
  IF i >= Len(s) THEN i
  ELSE IF REG_CHAR(CharAt(s, i)) THEN DestEnd(s, i + 1)
  ELSE IF IsEscapedAt(s, i) THEN DestEnd(s, i + 2)
  ELSE IF CharAt(s, i) = "(" /\ InParensEnd(s, i + 1) # -1 THEN DestEnd(s, InParensEnd(s, i + 1))
  ELSE i

\* reLinkDestination always matches, possibly the empty string
reLinkDestination(s, i) == DestEnd(s, i) - i

\* &(?:#x[a-f0-9]{1,8}|#[0-9]{1,8}|[a-z][a-z0-9]{1,31}) with re.I
HexDigits == Digits \cup CharsOf("abcdefABCDEF")
AtMost(n, k) == IF n > k THEN k ELSE n
reEntity(s, i) ==
  IF ~(i < Len(s) /\ CharAt(s, i) = "&") THEN -1
  ELSE IF Slice(s, i + 1, i + 3) \in {"#x", "#X"} /\ Span(s, i + 3, HexDigits) >= 1
       THEN 3 + AtMost(Span(s, i + 3, HexDigits), 8)
  ELSE IF Slice(s, i + 1, i + 2) = "#" /\ Span(s, i + 2, Digits) >= 1
       THEN 2 + AtMost(Span(s, i + 2, Digits), 8)
  ELSE IF i + 1 < Len(s) /\ CharAt(s, i + 1) \in (Lowers \cup Uppers)
          /\ Span(s, i + 2, Alnum) >= 1
       THEN 2 + AtMost(Span(s, i + 2, Alnum), 31)
  ELSE -1

\* The local part of an e-mail autolink: [a-zA-Z0-9.!#$%&'*+\\/=?^_`{|}~-]
EmailLocal == Alnum \cup CharsOf(".!#$%&'*+\\/=?_{|}~-") \cup {BQ}

\* [a-zA-Z0-9](?:[a-zA-Z0-9-]{0,61}[a-zA-Z0-9])? matches the whole of d
DomainLabel(d) ==
  /\ Len(d) >= 1
  /\ Len(d) <= 63
  /\ CharAt(d, 0) \in Alnum
  /\ CharAt(d, Len(d) - 1) \in Alnum
  /\ \A k \in 0..(Len(d) - 1) : CharAt(d, k) \in (Alnum \cup {"-"})

RECURSIVE DomainOk(_)
\* label(?:\.label)* matches the whole of d
DomainOk(d) ==
  LET n == Span(d, 0, Alnum \cup {"-"})
  IN  /\ DomainLabel(Slice(d, 0, n))
      /\ \/ n = Len(d)
         \/ (CharAt(d, n) = "." /\ DomainOk(From(d, n + 1)))

reEmailAutolink(s, i) ==
  IF Peek(s, i) # "<" THEN -1
  ELSE With(i + 1 + Span(s, i + 1, EmailLocal), LAMBDA at :
       With(at + 1 + Span(s, at + 1, Alnum \cup {"-", "."}), LAMBDA gt :
         IF /\ at > i + 1
            /\ Peek(s, at) = "@"
            /\ Peek(s, gt) = ">"
            /\ DomainOk(Slice(s, at + 1, gt))
         THEN gt + 1 - i
         ELSE -1))

autolink_schemes ==
  { "coap", "doi", "javascript", "aaa", "aaas", "about", "acap",
    "cap", "cid", "crid", "data", "dav", "dict", "dns", "file",
    "ftp", "geo", "go", "gopher", "h323", "http", "https", "iax",
    "icap", "im", "imap", "info", "ipp", "iris", "iris.beep",
    "iris.xpc", "iris.xpcs", "iris.lwz", "ldap", "mailto", "mid",
    "msrp", "msrps", "mtqp", "mupdate", "news", "nfs", "ni",
    "nih", "nntp", "opaquelocktoken", "pop", "pres", "rtsp",
    "service", "session", "shttp", "sieve", "sip", "sips", "sms",
    "snmp", "soap.beep", "soap.beeps", "tag", "tel", "telnet",
    "tftp", "thismessage", "tn3270", "tip", "tv", "urn", "vemmi",
    "ws", "wss", "xcon", "xcon-userid", "xmlrpc.beep",
    "xmlrpc.beeps", "xmpp", "z39.50r", "z39.50s", "adiumxtra",
    "afp", "afs", "aim", "apt", "attachment", "aw", "beshare",
    "bitcoin", "bolo", "callto", "chrome", "chrome-extension",
    "com-eventbrite-attendee", "content", "cvs", "dlna-playsingle",
    "dlna-playcontainer", "dtn", "dvb", "ed2k", "facetime",
    "feed", "finger", "fish", "gg", "git", "gizmoproject", "gtalk",
    "hcp", "icon", "ipn", "irc", "irc6", "ircs", "itms", "jar",
    "jms", "keyparc", "lastfm", "ldaps", "magnet", "maps",
    "market", "message", "mms", "ms-help", "msnim", "mumble",
    "mvn", "notes", "oid", "palm", "paparazzi", "platform",
    "proxy", "psyc", "query", "res", "resource", "rmi", "rsync",
    "rtmp", "secondlife", "sftp", "sgn", "skype", "smb", "soldat",
    "spotify", "ssh", "steam", "svn", "teamspeak", "things",
    "udp", "unreal", "ut2004", "ventrilo", "view-source",
    "webcal", "wtai", "wyciwyg", "xfire", "xri", "ymsgr" }

\* <(?:scheme):[^<>\x00-\x20]*>
reUriAutolink(s, i) ==
  IF Peek(s, i) # "<" THEN -1
  ELSE With(i + 1 + Span(s, i + 1, Alnum \cup {".", "-"}), LAMBDA colon :
       With(colon + 1 + Span(s, colon + 1, CharsOf(s) \ (Ctrl \cup {"<", ">"})), LAMBDA gt :
         IF /\ Slice(s, i + 1, colon) \in autolink_schemes
            /\ Peek(s, colon) = ":"
            /\ Peek(s, gt) = ">"
         THEN gt + 1 - i
         ELSE -1))

\* --- reHtmlTag -----------------------------------------------------------
NameStart == Lowers \cup Uppers \cup {"_", ":"}
NameChars == Alnum \cup {":", ".", "_", "-"}
\* [^"'=<>`\x00-\x20]
UnquotedChar(c) == c \notin (Ctrl \cup {"\"", "'", "=", "<", ">", BQ})

\* The first index j >= i with s[j:j+len(pat)] = pat, or -1
FirstIndexOf(s, i, pat) ==
  LET J == { j \in i..(Len(s) - Len(pat)) : Slice(s, j, j + Len(pat)) = pat }
  IN  IF J = {} THEN -1 ELSE MinOf(J)

RECURSIVE UnquotedSpan(_, _)
UnquotedSpan(s, i) ==
  IF i < Len(s) /\ UnquotedChar(CharAt(s, i)) THEN 1 + UnquotedSpan(s, i + 1) ELSE 0

\* ATTRIBUTEVALUE at index v: the end index or -1
AttrValueEnd(s, v) ==
  IF v >= Len(s) THEN -1
  ELSE IF CharAt(s, v) \in {"'", "\""}
       THEN With(FirstIndexOf(s, v + 1, CharAt(s, v)), LAMBDA q : IF q = -1 THEN -1 ELSE q + 1)
  ELSE With(UnquotedSpan(s, v), LAMBDA n : IF n >= 1 THEN v + n ELSE -1)

RECURSIVE AttrsEnd(_, _)
\* ATTRIBUTE* \s* /? > from index i: the end index or -1.  An attribute
\* takes its value if the rest of the tag then matches, and else goes
\* without it.
AttrsEnd(s, i) ==
  With(i + Span(s, i, WhiteSpace), LAMBDA n0 :
    IF n0 > i /\ Peek(s, n0) \in NameStart
    THEN With(n0 + 1 + Span(s, n0 + 1, NameChars), LAMBDA nameEnd :
         With(nameEnd + Span(s, nameEnd, WhiteSpace), LAMBDA eq :
         With(IF Peek(s, eq) = "="
              THEN AttrValueEnd(s, eq + 1 + Span(s, eq + 1, WhiteSpace))
              ELSE -1, LAMBDA valEnd :
           OrElse(IF valEnd = -1 THEN -1 ELSE AttrsEnd(s, valEnd), AttrsEnd(s, nameEnd)))))
    ELSE With(IF Peek(s, n0) = "/" THEN n0 + 1 ELSE n0, LAMBDA j :
           IF Peek(s, j) = ">" THEN j + 1 ELSE -1))

RECURSIVE CDataEnd(_, _)
\* ([^\]]+|\][^\]]|\]\][^>])*\]\]> from index i: the end index or -1
CDataEnd(s, i) ==
  IF i >= Len(s) THEN -1
  ELSE LET run == Span(s, i, CharsOf(s) \ {"]"})
           alt1 == IF run >= 1 THEN CDataEnd(s, i + run) ELSE -1
           alt2 == IF CharAt(s, i) = "]" /\ i + 1 < Len(s) /\ CharAt(s, i + 1) # "]"
                   THEN CDataEnd(s, i + 2) ELSE -1
           alt3 == IF Slice(s, i, i + 2) = "]]" /\ i + 2 < Len(s) /\ CharAt(s, i + 2) # ">"
                   THEN CDataEnd(s, i + 3) ELSE -1
       IN  IF alt1 # -1 THEN alt1
           ELSE IF alt2 # -1 THEN alt2
           ELSE IF alt3 # -1 THEN alt3
           ELSE IF Slice(s, i, i + 3) = "]]>" THEN i + 3
           ELSE -1

\* OPENTAG after the < at index i: the end index or -1
OpenTagEnd(s, i) ==
  IF Peek(s, i + 1) \in (Lowers \cup Uppers)
  THEN AttrsEnd(s, i + 2 + Span(s, i + 2, Alnum))
  ELSE -1

\* CLOSETAG
CloseTagEnd(s, i) ==
  IF Peek(s, i + 1) = "/" /\ Peek(s, i + 2) \in (Lowers \cup Uppers)
  THEN With(i + 3 + Span(s, i + 3, Alnum), LAMBDA j :
       With(j + Span(s, j, WhiteSpace), LAMBDA k :
         IF Peek(s, k) = ">" THEN k + 1 ELSE -1))
  ELSE -1

\* HTMLCOMMENT
CommentEnd(s, i) ==
  IF Slice(s, i, i + 4) = "<!--"
  THEN With(FirstIndexOf(s, i + 4, "--"), LAMBDA j :
         IF j # -1 /\ Peek(s, j + 2) = ">" THEN j + 3 ELSE -1)
  ELSE -1

\* PROCESSINGINSTRUCTION
PIEnd(s, i) ==
  IF Peek(s, i + 1) = "?"
  THEN With(FirstIndexOf(s, i + 2, "?>"), LAMBDA j :
         IF j # -1 /\ FirstIndexOf(Slice(s, 0, j), i + 2, "\n") = -1 THEN j + 2 ELSE -1)
  ELSE -1

\* DECLARATION
DeclEnd(s, i) ==
  IF Peek(s, i + 1) = "!"
  THEN With(i + 2 + Span(s, i + 2, Lowers \cup Uppers), LAMBDA a :
       With(a + Span(s, a, WhiteSpace), LAMBDA b :
       With(FirstIndexOf(s, b, ">"), LAMBDA j :
         IF a > i + 2 /\ b > a /\ j # -1 THEN j + 1 ELSE -1)))
  ELSE -1

reHtmlTag(s, i) ==
  IF Peek(s, i) # "<" THEN -1
  ELSE RelEnd(OrElse(OpenTagEnd(s, i),
              OrElse(CloseTagEnd(s, i),
              OrElse(CommentEnd(s, i),
              OrElse(PIEnd(s, i),
              OrElse(DeclEnd(s, i),
                     IF Lower(Slice(s, i, i + 9)) = "<![cdata[" THEN CDataEnd(s, i + 9)
                     ELSE -1))))), i)

\* ------------------------------------------------------------------------
\* Inline nodes.  An Inline is a record: c holds a literal, kids the list
\* that the code keeps in c (Emph, Strong) or in label (Link, Image).
\* ------------------------------------------------------------------------
Inline(t, c) ==
  [t |-> t, c |-> c, kids |-> <<>>, destination |-> "", title |-> "", has_title |-> FALSE]

LinkInline(label, destination, title, has_title) ==
  [t |-> "Link", c |-> "", kids |-> label, destination |-> destination,
   title |-> title, has_title |-> has_title]

\* What an inline handler hands back: the cursor, label_nest_level, the
\* exception that left it, the list of inlines and its return value.
Ret(pos, lnl, exc, inl, r) == [pos |-> pos, lnl |-> lnl, exc |-> exc, inl |-> inl, r |-> r]

spnl(s, pos) ==
  LET a == pos + Span(s, pos, {" "})
  IN  IF Peek(s, a) = "\n" THEN a + 1 + Span(s, a + 1, {" "}) ELSE a

RECURSIVE CollapseSpNl(_)
\* re.sub(r'[ \n]+', ' ', s)
CollapseSpNl(s) ==
  IF Len(s) = 0 THEN ""
  ELSE IF CharAt(s, 0) \in {" ", "\n"}
       THEN " " \o CollapseSpNl(From(s, Span(s, 0, {" ", "\n"})))
       ELSE CharAt(s, 0) \o CollapseSpNl(From(s, 1))

RECURSIVE ClosingTicks(_, _, _)
\* The cursor after the next run of exactly n backquotes found from p, or -1
ClosingTicks(s, p, n) ==
  LET j == FirstIndexOf(s, p, BQ)
  IN  IF j = -1 THEN -1
      ELSE IF Span(s, j, {BQ}) = n THEN j + n
      ELSE ClosingTicks(s, j + Span(s, j, {BQ}), n)

parse_backticks(s, pos, lnl, inl) ==
  With(Span(s, pos, {BQ}), LAMBDA n :
  With(ClosingTicks(s, pos + n, n), LAMBDA e :
    IF n = 0 THEN Ret(pos, lnl, "none", inl, 0)
    ELSE IF e # -1
         THEN Ret(e, lnl, "none",
                  Append(inl, Inline("Code", Strip(CollapseSpNl(Slice(s, pos + n, e - n))))),
                  e - pos)
    ELSE Ret(pos + n, lnl, "none", Append(inl, Inline("Str", Slice(s, pos, pos + n))), n)))

parseEscaped(s, pos, lnl, inl) ==
  IF Peek(s, pos) # "\\" THEN Ret(pos, lnl, "none", inl, 0)
  ELSE IF pos + 1 >= Len(s) THEN Ret(pos, lnl, "IndexError", inl, 0)
  ELSE IF CharAt(s, pos + 1) = "\n" THEN Ret(pos + 2, lnl, "none", Append(inl, Inline("Hardbreak", "")), 2)
  ELSE IF CharAt(s, pos + 1) \in ESCAPABLE
       THEN Ret(pos + 2, lnl, "none", Append(inl, Inline("Str", CharAt(s, pos + 1))), 2)
  ELSE Ret(pos + 1, lnl, "none", Append(inl, Inline("Str", "\\")), 1)

\* An autolink of m characters at pos, its destination prefixed by scheme
autolink_node(s, pos, lnl, inl, m, scheme) ==
  Ret(pos + m, lnl, "none",
      Append(inl, LinkInline(<<Inline("Str", Slice(s, pos + 1, pos + m - 1))>>,
                             scheme \o Slice(s, pos + 1, pos + m - 1), "", FALSE)), m)

parse_autolink(s, pos, lnl, inl) ==
  With(reEmailAutolink(s, pos), LAMBDA m :
    IF m # -1 THEN autolink_node(s, pos, lnl, inl, m, "mailto:")
    ELSE With(reUriAutolink(s, pos), LAMBDA u :
           IF u # -1 THEN autolink_node(s, pos, lnl, inl, u, "")
           ELSE Ret(pos, lnl, "none", inl, 0)))

parse_html_tag(s, pos, lnl, inl) ==
  With(reHtmlTag(s, pos), LAMBDA m :
    IF m # -1
    THEN Ret(pos + m, lnl, "none", Append(inl, Inline("Html", Slice(s, pos, pos + m))), m)
    ELSE Ret(pos, lnl, "none", inl, 0))

\* The characters reMain sets apart
MainSpecials == {"\n", BQ, "[", "]", "\\", "!", "<", "&", "*", "_"}

parse_string(s, pos, lnl, inl) ==
  IF pos >= Len(s) THEN Ret(pos, lnl, "none", inl, 0)
  ELSE LET n == IF CharAt(s, pos) \in MainSpecials THEN 1
                ELSE Span(s, pos, CharsOf(s) \ MainSpecials)
       IN  Ret(pos + n, lnl, "none", Append(inl, Inline("Str", Slice(s, pos, pos + n))), n)

parse_entity(s, pos, lnl, inl) ==
  With(reEntity(s, pos), LAMBDA m :
    IF m # -1
    THEN Ret(pos + m, lnl, "none", Append(inl, Inline("Entity", Slice(s, pos, pos + m))), m)
    ELSE Ret(pos, lnl, "none", inl, 0))

parse_newline(s, pos, lnl, inl) ==
  IF Peek(s, pos) # "\n" THEN Ret(pos, lnl, "none", inl, 0)
  ELSE IF Len(inl) > 0 /\ inl[Len(inl)].t = "Str"
       THEN LET last == inl[Len(inl)]
                n == Len(last.c)
            IN  IF n >= 2 /\ Slice(last.c, n - 2, n) = "  "
                THEN Ret(pos + 1, lnl, "none",
                         Append([inl EXCEPT ![Len(inl)].c = Slice(last.c, 0, n - RSpan(last.c, {" "}))],
                                Inline("Hardbreak", "")), 1)
                ELSE IF n = 0 THEN Ret(pos + 1, lnl, "IndexError", inl, 0)
                ELSE IF CharAt(last.c, n - 1) = " "
                     THEN Ret(pos + 1, lnl, "none",
                              Append([inl EXCEPT ![Len(inl)].c = Slice(last.c, 0, n - 1)],
                                     Inline("Softbreak", "")), 1)
                     ELSE Ret(pos + 1, lnl, "none", Append(inl, Inline("Softbreak", "")), 1)
       ELSE Ret(pos + 1, lnl, "none", Append(inl, Inline("Softbreak", "")), 1)

scan_delims(s, pos, c) ==
  LET numdelims == Span(s, pos, {c})
      char_before == IF pos = 0 THEN "\n" ELSE CharAt(s, pos - 1)
      char_after == IF pos + numdelims < Len(s) THEN CharAt(s, pos + numdelims) ELSE "\n"
      open0 == numdelims > 0 /\ numdelims <= 3 /\ char_after \notin WhiteSpace
      close0 == numdelims > 0 /\ numdelims <= 3 /\ char_before \notin WhiteSpace
  IN  [numdelims |-> numdelims,
       can_open |-> IF c = "_" THEN open0 /\ char_before \notin Alnum ELSE open0,
       can_close |-> IF c = "_" THEN close0 /\ char_after \notin Alnum ELSE close0]

RECURSIVE LabelLoop(_, _, _, _)
\* The while loop of parse_link_label from cursor p at depth nest_level:
\* the cursor and depth at which it stops, or the exception that left it.
LabelLoop(s, p, lnl, nest_level) ==
  With(Peek(s, p), LAMBDA c :
    IF c = "" \/ (c = "]" /\ nest_level <= 0)
    THEN [pos |-> p, nest_level |-> nest_level, exc |-> "none"]
    ELSE IF c = BQ THEN LabelLoop(s, parse_backticks(s, p, lnl, <<>>).pos, lnl, nest_level)
    ELSE IF c = "<"
         THEN With(parse_autolink(s, p, lnl, <<>>), LAMBDA a :
              With(parse_html_tag(s, p, lnl, <<>>), LAMBDA h :
                LabelLoop(s, IF a.r # 0 THEN a.pos
                             ELSE IF h.r # 0 THEN h.pos
                             ELSE parse_string(s, p, lnl, <<>>).pos, lnl, nest_level)))
    ELSE IF c = "[" THEN LabelLoop(s, p + 1, lnl, nest_level + 1)
    ELSE IF c = "]" THEN LabelLoop(s, p + 1, lnl, nest_level - 1)
    ELSE IF c = "\\"
         THEN With(parseEscaped(s, p, lnl, <<>>), LAMBDA e :
                IF e.exc # "none" THEN [pos |-> p, nest_level |-> nest_level, exc |-> e.exc]
                ELSE LabelLoop(s, e.pos, lnl, nest_level))
    ELSE LabelLoop(s, parse_string(s, p, lnl, <<>>).pos, lnl, nest_level))

parse_link_label(s, pos, lnl) ==
  IF Peek(s, pos) # "[" THEN Ret(pos, lnl, "none", <<>>, 0)
  ELSE IF lnl > 0 THEN Ret(pos, lnl - 1, "none", <<>>, 0)
  ELSE With(LabelLoop(s, pos + 1, lnl, 0), LAMBDA l :
         IF l.exc # "none" THEN Ret(l.pos, lnl, l.exc, <<>>, 0)
         ELSE IF Peek(s, l.pos) = "]" THEN Ret(l.pos + 1, 0, "none", <<>>, l.pos + 1 - pos)
         ELSE Ret(pos, l.nest_level, "none", <<>>, 0))

\* The reference map is a set of entries, at most one per label.
HasRefNever(refmap, label) == FALSE
HasRef(refmap, label) == \E e \in refmap : e.label = label
RefOf(refmap, label) == CHOOSE e \in refmap : e.label = label

RECURSIVE parse_inline(_, _, _, _, _)
RECURSIVE InlineLoop(_, _, _, _, _)
RECURSIVE EmphLoop(_, _, _, _, _, _)
RECURSIVE parse_link(_, _, _, _, _)

\* InlineParser.parse: the list of inlines of s, with the label_nest_level
\* and the exception it ends with.
InlineParserParse(s, refmap, lnl) == InlineLoop(s, refmap, 0, lnl, <<>>)

\* parse_raw_label runs a new InlineParser with an empty reference map.
parse_raw_label(s) == InlineParserParse(Slice(s, 1, Len(s) - 2), {}, 0)

parse_link(s, refmap, pos, lnl, inl) ==
  With(parse_link_label(s, pos, lnl), LAMBDA l1 :
    IF l1.exc # "none" THEN Ret(l1.pos, l1.lnl, l1.exc, inl, 0)
    ELSE IF l1.r = 0 THEN Ret(l1.pos, l1.lnl, "none", inl, 0)
    ELSE IF Peek(s, l1.pos) = "("
         \* self.parseLinkDestination is not a method of InlineParser
         THEN Ret(spnl(s, l1.pos + 1), l1.lnl, "AttributeError", inl, 0)
    ELSE With(parse_link_label(s, spnl(s, l1.pos), l1.lnl), LAMBDA l2 :
         With(IF l2.r > 0 THEN l2.pos ELSE l1.pos, LAMBDA after :
         With(Slice(s, pos, l1.r), LAMBDA rawlabel :
         With(normalize_reference(rawlabel), LAMBDA key :
           IF l2.exc # "none" THEN Ret(l2.pos, l2.lnl, l2.exc, inl, 0)
           \* self.subject[beforelabel, beforelabel + n]: a tuple as index
           ELSE IF l2.r > 0 /\ l2.r # 2 THEN Ret(l2.pos, l2.lnl, "TypeError", inl, 0)
           ELSE IF ~HasRef(refmap, key) THEN Ret(after, l2.lnl, "KeyError", inl, 0)
           ELSE With(parse_raw_label(rawlabel), LAMBDA label :
                  IF label.exc # "none" THEN Ret(after, l2.lnl, label.exc, inl, 0)
                  ELSE Ret(after, l2.lnl, "none",
                           Append(inl, LinkInline(label.inl, RefOf(refmap, key).destination,
                                                  RefOf(refmap, key).title, TRUE)),
                           after - pos)))))))

parse_image(s, refmap, pos, lnl, inl) ==
  IF Peek(s, pos) # "!" THEN Ret(pos, lnl, "none", inl, 0)
  ELSE With(parse_link(s, refmap, pos + 1, lnl, inl), LAMBDA l :
         IF l.exc # "none" THEN l
         ELSE IF l.r = 0 THEN Ret(l.pos, l.lnl, "none", Append(l.inl, Inline("Str", "!")), 1)
         ELSE IF Len(l.inl) > 0 /\ l.inl[Len(l.inl)].t = "Link"
              THEN Ret(l.pos, l.lnl, "none", [l.inl EXCEPT ![Len(l.inl)].t = "Image"], l.r + 1)
         ELSE Ret(l.pos, l.lnl, "ParseError", l.inl, 0))

\* A loop that takes only a closing run as long as the opener
ClosesEmphExactly(res, numdelims, first_close_delims) ==
  res.numdelims = numdelims /\ res.can_close
\* The closing run that the loop of parse_emphasis accepts, for an opener
\* of numdelims delimiters.
ClosesEmph(res, numdelims, first_close_delims) ==
  IF numdelims = 3
  THEN res.numdelims >= 1 /\ res.numdelims <= 3 /\ res.can_close
       /\ res.numdelims # first_close_delims
  ELSE res.numdelims >= numdelims /\ res.can_close

\* The loops of parse_emphasis.  e is the state of the loop: the cursor, the
\* list of inlines, label_nest_level, and first_close (an index of inl, from
\* 1; 0 when no closer was met) with first_close_delims.
EmphLoop(s, refmap, c, numdelims, delimpos, e) ==
  With(scan_delims(s, e.pos, c), LAMBDA res :
    IF ClosesEmph(res, numdelims, e.first_close_delims)
    THEN IF numdelims < 3
         THEN [e EXCEPT !.pos = e.pos + numdelims,
                        !.inl = Append(SubSeq(e.inl, 1, delimpos - 1),
                                       [e.inl[delimpos] EXCEPT
                                          !.t = IF numdelims = 1 THEN "Emph" ELSE "Strong",
                                          !.c = "",
                                          !.kids = SubSeq(e.inl, delimpos + 1, Len(e.inl))])]
         ELSE With(IF e.first_close_delims = 1 /\ res.numdelims > 2 THEN 2
                   ELSE IF e.first_close_delims = 2 THEN 1
                   ELSE IF res.numdelims = 3 THEN 1
                   ELSE res.numdelims, LAMBDA nd :
                IF e.first_close > 0
                THEN [e EXCEPT !.pos = e.pos + nd,
                               !.inl = [e.inl EXCEPT ![delimpos] =
                                  [e.inl[delimpos] EXCEPT
                                     !.t = IF e.first_close_delims = 1 THEN "Strong" ELSE "Emph",
                                     !.c = "",
                                     !.kids = <<[Inline(IF e.first_close_delims = 1
                                                        THEN "Emph" ELSE "Strong", "")
                                                  EXCEPT !.kids = SubSeq(e.inl, delimpos + 1,
                                                                         e.first_close - 1)]>>
                                              \o SubSeq(e.inl, e.first_close + 1, Len(e.inl))]]]
                ELSE EmphLoop(s, refmap, c, numdelims, delimpos,
                              [e EXCEPT !.pos = e.pos + nd,
                                        !.inl = Append(e.inl, Inline("Str", Slice(s, e.pos, e.pos + nd))),
                                        !.first_close = Len(e.inl) + 1,
                                        !.first_close_delims = nd]))
    ELSE With(parse_inline(s, refmap, e.pos, e.lnl, e.inl), LAMBDA i :
         With([e EXCEPT !.pos = i.pos, !.lnl = i.lnl, !.inl = i.inl, !.exc = i.exc], LAMBDA e2 :
           IF i.exc # "none" \/ i.r = 0 THEN e2
           ELSE IF i.pos = e.pos /\ i.lnl = e.lnl THEN [e2 EXCEPT !.exc = "Hang"]
           ELSE EmphLoop(s, refmap, c, numdelims, delimpos, e2))))

parse_emphasis(s, refmap, pos, lnl, inl) ==
  With(Peek(s, pos), LAMBDA c :
    IF c \notin {"*", "_"} THEN Ret(pos, lnl, "none", inl, 0)
    ELSE With(scan_delims(s, pos, c), LAMBDA res :
         With(Append(inl, Inline("Str", Slice(s, pos, pos + res.numdelims))), LAMBDA opened :
           IF ~res.can_open \/ res.numdelims = 0
           THEN Ret(pos + res.numdelims, lnl, "none", opened, 0)
           ELSE With(EmphLoop(s, refmap, c, res.numdelims, Len(opened),
                              [pos |-> pos + res.numdelims, lnl |-> lnl, inl |-> opened,
                               exc |-> "none", first_close |-> 0, first_close_delims |-> 0]),
                     LAMBDA e : Ret(e.pos, e.lnl, e.exc, e.inl, e.pos - pos)))))

\* The handler parse_inline picks for the character c at the cursor
inline_handler(s, refmap, pos, lnl, inl, c) ==
  IF c = "\n" THEN parse_newline(s, pos, lnl, inl)
  ELSE IF c = "\\" THEN parseEscaped(s, pos, lnl, inl)
  ELSE IF c = BQ THEN parse_backticks(s, pos, lnl, inl)
  ELSE IF c \in {"*", "_"} THEN parse_emphasis(s, refmap, pos, lnl, inl)
  ELSE IF c = "[" THEN parse_link(s, refmap, pos, lnl, inl)
  ELSE IF c = "!" THEN parse_image(s, refmap, pos, lnl, inl)
  ELSE IF c = "<"
       THEN With(parse_autolink(s, pos, lnl, inl), LAMBDA a :
              IF a.r # 0 THEN a ELSE parse_html_tag(s, pos, lnl, inl))
  ELSE IF c = "&" THEN parse_entity(s, pos, lnl, inl)
  ELSE Ret(pos, lnl, "none", inl, 0)

parse_inline(s, refmap, pos, lnl, inl) ==
  With(inline_handler(s, refmap, pos, lnl, inl, Peek(s, pos)), LAMBDA r :
    \* res or self.parse_string(inlines)
    IF r.exc # "none" \/ r.r # 0 THEN r
    ELSE parse_string(s, r.pos, r.lnl, r.inl))

\* while self.parse_inline(inlines): pass
InlineLoop(s, refmap, pos, lnl, inl) ==
  With(parse_inline(s, refmap, pos, lnl, inl), LAMBDA i :
    IF i.exc # "none" \/ i.r = 0 THEN i
    ELSE IF i.pos = pos /\ i.lnl = lnl THEN [i EXCEPT !.exc = "Hang"]
    ELSE InlineLoop(s, refmap, i.pos, i.lnl, i.inl))

RefOut(lnl, exc, r, refmap) == [lnl |-> lnl, exc |-> exc, r |-> r, refmap |-> refmap]

\* InlineParser.parse_reference: r is the number of characters consumed and
\* refmap the map after the call.
parse_reference(s, refmap, lnl) ==
  With(parse_link_label(s, 0, lnl), LAMBDA l :
    IF l.exc # "none" THEN RefOut(l.lnl, l.exc, 0, refmap)
    ELSE IF l.r = 0 THEN RefOut(l.lnl, "none", 0, refmap)
    ELSE IF Peek(s, l.pos) # ":" THEN RefOut(l.lnl, "none", 0, refmap)
    ELSE With(spnl(s, l.pos + 1), LAMBDA afterColon :
         With(reLinkDestinationBraces(s, afterColon), LAMBDA braces :
         With(reLinkDestination(s, afterColon), LAMBDA plain :
         With(IF braces # -1 THEN unescape(Slice(s, afterColon + 1, afterColon + braces - 2))
              ELSE unescape(Slice(s, afterColon, afterColon + plain)), LAMBDA dest :
         With(afterColon + (IF braces # -1 THEN braces ELSE plain), LAMBDA beforetitle :
         With(spnl(s, beforetitle), LAMBDA titleAt :
         With(reLinkTitle(s, titleAt), LAMBDA t :
         With(normalize_reference(Slice(s, 0, l.r)), LAMBDA normlabel :
           IF dest = "" THEN RefOut(l.lnl, "none", 0, refmap)
           ELSE RefOut(l.lnl, "none", IF t = -1 THEN beforetitle ELSE titleAt + t,
                       IF HasRef(refmap, normlabel) THEN refmap
                       ELSE refmap \cup
                            {[label |-> normlabel, destination |-> dest,
                              title |-> IF t = -1 THEN ""
                                        ELSE unescape(Slice(s, titleAt + 1,
                                                            titleAt + t - 2))]}))))))))))

\* ------------------------------------------------------------------------
\* Blocks.  The tree is an arena: blocks[i] is a Block, block 1 the Document,
\* parent and children are indices, 0 is the missing parent (None) and also
\* DocParser.top.  A field the code sets on some kinds only (level, fence_*,
\* list_data) has a neutral value on the others.
\* ------------------------------------------------------------------------
NoListData ==
  [type |-> "None", bullet_char |-> "None", start |-> -1, delimiter |-> "None",
   padding |-> -1, marker_offset |-> -1]

makeBlock(tag, start_line, start_column) ==
  [t |-> tag, open |-> TRUE, last_line_blank |-> FALSE, start_line |-> start_line,
   start_column |-> start_column, end_line |-> start_line, children |-> <<>>,
   parent |-> 0, string_content |-> "", strings |-> <<>>, inline_content |-> <<>>,
   tight |-> FALSE, info |-> "", level |-> 0, fence_length |-> 0, fence_char |-> "",
   fence_offset |-> 0, list_data |-> NoListData]

\* A parseListMarker whose padding always counts the spaces after the
\* marker, five or more and those of a blank item too
parseListMarkerAllSpaces(line, offset) ==
  LET rest == From(line, offset)
      nd == Span(rest, 0, Digits)
      bullet == Len(rest) > 0 /\ CharAt(rest, 0) \in {"*", "+", "-"}
                /\ (Len(rest) = 1 \/ CharAt(rest, 1) = " ")
      marker == IF bullet THEN 1 ELSE nd + 1
      spaces_after_marker == Span(rest, marker, {" "})
      padding == IF \/ spaces_after_marker >= 5
                    \/ spaces_after_marker < 1
                    \/ marker + spaces_after_marker = Len(rest)
                 THEN marker + spaces_after_marker
                 ELSE marker + spaces_after_marker
  IN  IF reHrule(rest) THEN NoListData
      ELSE IF bullet
           THEN [NoListData EXCEPT !.type = "Bullet", !.bullet_char = CharAt(rest, 0),
                                   !.padding = padding]
      ELSE IF /\ nd >= 1
              /\ nd < Len(rest)
              /\ CharAt(rest, nd) \in {".", ")"}
              /\ (Len(rest) = nd + 1 \/ CharAt(rest, nd + 1) = " ")
           THEN [NoListData EXCEPT !.type = "Ordered",
                                   !.start = DigitsToInt(Slice(rest, 0, nd)),
                                   !.delimiter = CharAt(rest, nd), !.padding = padding]
      ELSE NoListData
\* parseListMarker(line, offset): the ListData or NoListData for None.
\* The marker is a bullet (^[*+-]( +|$)) or digits and a delimiter
\* (^(\d+)([.)])( +|$)); marker is its width, nd the number of digits.
parseListMarker(line, offset) ==
  With(From(line, offset), LAMBDA rest :
  With(Span(rest, 0, Digits), LAMBDA nd :
  With(Len(rest) > 0 /\ CharAt(rest, 0) \in {"*", "+", "-"}
       /\ (Len(rest) = 1 \/ CharAt(rest, 1) = " "), LAMBDA bullet :
  With(IF bullet THEN 1 ELSE nd + 1, LAMBDA marker :
  With(Span(rest, marker, {" "}), LAMBDA spaces_after_marker :
  With(IF \/ spaces_after_marker >= 5
          \/ spaces_after_marker < 1
          \/ marker + spaces_after_marker = Len(rest)
       THEN marker + 1
       ELSE marker + spaces_after_marker, LAMBDA padding :
    IF reHrule(rest) THEN NoListData
    ELSE IF bullet
         THEN [NoListData EXCEPT !.type = "Bullet", !.bullet_char = CharAt(rest, 0),
                                 !.padding = padding]
    ELSE IF /\ nd >= 1
            /\ nd < Len(rest)
            /\ CharAt(rest, nd) \in {".", ")"}
            /\ (Len(rest) = nd + 1 \/ CharAt(rest, nd + 1) = " ")
         THEN [NoListData EXCEPT !.type = "Ordered", !.start = DigitsToInt(Slice(rest, 0, nd)),
                                 !.delimiter = CharAt(rest, nd), !.padding = padding]
    ELSE NoListData))))))

\* A listsMatch that takes any two lists to match
listsMatchAny(list_data, item_data) == TRUE
listsMatch(list_data, item_data) ==
  /\ list_data.type = item_data.type
  /\ list_data.delimiter = item_data.delimiter
  /\ list_data.bullet_char = item_data.bullet_char

RECURSIVE endsWithBlankLine(_, _)
endsWithBlankLine(blocks, b) ==
  IF blocks[b].last_line_blank THEN TRUE
  ELSE IF blocks[b].t \in {"List", "ListItem"} /\ Len(blocks[b].children) > 0
       THEN endsWithBlankLine(blocks, blocks[b].children[Len(blocks[b].children)])
  ELSE FALSE

canContain(parent_type, child_type) ==
  \/ parent_type \in {"Document", "BlockQuote", "ListItem"}
  \/ (parent_type = "List" /\ child_type = "ListItem")

acceptsLines(block_type) == block_type \in {"Paragraph", "IndentedCode", "FencedCode"}

\* re.sub(r'^  *', '', s, re.M): re.M is taken as the count, so the pattern
\* is anchored at the start of the string only.
StripLeadingSpaces(s) == From(s, Span(s, 0, {" "}))

\* re.sub(r'(\n *)*$', '\n', s): the leftmost match is the longest suffix of
\* s made of newlines and spaces that starts with a newline.
TrailingBlankStart(s) ==
  LET I == { i \in 0..(Len(s) - 1) :
               /\ CharAt(s, i) = "\n"
               /\ \A k \in i..(Len(s) - 1) : CharAt(s, k) \in {"\n", " "} }
  IN  IF I = {} THEN Len(s) ELSE MinOf(I)

RefDefOut(content, t, refmap, lnl, exc) ==
  [string_content |-> content, t |-> t, refmap |-> refmap, lnl |-> lnl, exc |-> exc]

RECURSIVE RefDefLoop(_, _, _)
\* The part of finalize that strips reference definitions from the start of
\* a paragraph of content sc: parse_reference, then the loop that cuts what
\* it consumed and calls it again.  Gives the content left, the kind of the
\* block, the map.
RefDefLoop(sc, refmap, lnl) ==
  With(parse_reference(sc, refmap, lnl), LAMBDA r :
    IF r.exc # "none" THEN RefDefOut(sc, "Paragraph", r.refmap, r.lnl, r.exc)
    ELSE IF Len(sc) = 0 THEN RefDefOut(sc, "Paragraph", r.refmap, r.lnl, "IndexError")
    ELSE IF ~(CharAt(sc, 0) = "[" /\ r.r # 0)
         THEN RefDefOut(sc, "Paragraph", r.refmap, r.lnl, "none")
    ELSE IF is_blank(From(sc, r.r))
         THEN RefDefOut(From(sc, r.r), "ReferenceDef", r.refmap, r.lnl, "none")
    ELSE RefDefLoop(From(sc, r.r), r.refmap, r.lnl))

\* The tight flag finalize computes for the List b
ListTight(blocks, b) ==
  LET items == blocks[b].children
  IN  ~ \E i \in 1..Len(items) :
          \/ (endsWithBlankLine(blocks, items[i]) /\ i # Len(items))
          \/ \E j \in 1..Len(blocks[items[i]].children) :
                /\ endsWithBlankLine(blocks, blocks[items[i]].children[j])
                /\ ~(i = Len(items) /\ j = Len(blocks[items[i]].children))

\* A finalize that leaves the tip on the block it has closed
ParentOrTopStays(b, parent) == b
\* Line 1337: self.tip = block.parent or self.top, for the block b
ParentOrTop(b, parent) == IF parent # 0 THEN parent ELSE 0

\* The end of finalize for the block b, now nb
Finalized(m, b, nb, refmap, lnl) ==
  [m EXCEPT !.blocks[b] = nb, !.refmap = refmap, !.lnl = lnl,
            !.tip = ParentOrTop(b, m.blocks[b].parent)]

\* An exception leaves finalize with the block b as nb
FinalizeFailed(m, b, nb, refmap, lnl, exc) ==
  [m EXCEPT !.blocks[b] = nb, !.refmap = refmap, !.lnl = lnl, !.exc = exc]

\* DocParser.finalize(block, line_number) on the parser state m.  closed is
\* the block with open and end_line set (lines 1285-1289), joined is
\* '\n'.join(block.strings).
finalize(m, b, line_number) ==
  IF m.exc # "none" THEN m
  ELSE IF ~m.blocks[b].open THEN m
  ELSE
    With([m.blocks[b] EXCEPT !.open = FALSE,
                             !.end_line = IF line_number > m.blocks[b].start_line
                                          THEN line_number - 1 ELSE line_number], LAMBDA closed :
    With(Join(closed.strings, "\n"), LAMBDA joined :
      IF closed.t = "Paragraph"
      THEN With(RefDefLoop(StripLeadingSpaces(joined), m.refmap, m.lnl), LAMBDA loop :
             IF loop.exc # "none"
             THEN FinalizeFailed(m, b, [closed EXCEPT !.string_content = loop.string_content],
                                 loop.refmap, loop.lnl, loop.exc)
             ELSE Finalized(m, b, [closed EXCEPT !.string_content = loop.string_content,
                                                !.t = loop.t],
                            loop.refmap, loop.lnl))
      ELSE IF closed.t \in {"ATXHeader", "SetextHeader", "HtmlBlock"}
      THEN Finalized(m, b, [closed EXCEPT !.string_content = joined], m.refmap, m.lnl)
      ELSE IF closed.t = "IndentedCode"
      THEN Finalized(m, b, [closed EXCEPT !.string_content =
                              Slice(joined, 0, TrailingBlankStart(joined)) \o "\n"],
                     m.refmap, m.lnl)
      ELSE IF closed.t = "FencedCode"
      THEN IF Len(closed.strings) = 0
           THEN FinalizeFailed(m, b, closed, m.refmap, m.lnl, "IndexError")
           ELSE Finalized(m, b, [closed EXCEPT
                                   !.info = unescape(Strip(closed.strings[1])),
                                   !.string_content = IF Len(closed.strings) = 1 THEN ""
                                                      ELSE Join(Tail(closed.strings), "\n") \o "\n"],
                          m.refmap, m.lnl)
      ELSE IF closed.t = "List"
      THEN Finalized(m, b, [closed EXCEPT !.tight = ListTight(m.blocks, b)], m.refmap, m.lnl)
      ELSE Finalized(m, b, closed, m.refmap, m.lnl)))

Raise(m, exc) == IF m.exc # "none" THEN m ELSE [m EXCEPT !.exc = exc]

RECURSIVE FinalizeUntilCanContain(_, _, _)
\* while not canContain(self.tip.t, tag): self.finalize(self.tip, line_number)
FinalizeUntilCanContain(m, tag, line_number) ==
  IF m.exc # "none" THEN m
  ELSE IF m.tip = 0 THEN Raise(m, "AttributeError")
  ELSE IF canContain(m.blocks[m.tip].t, tag) THEN m
  ELSE IF ~m.blocks[m.tip].open THEN Raise(m, "Hang")
  ELSE FinalizeUntilCanContain(finalize(m, m.tip, line_number), tag, line_number)

\* DocParser.add_child: the new block is the last of the arena and the tip
add_child(m, tag, line_number, offset) ==
  With(FinalizeUntilCanContain(m, tag, line_number), LAMBDA f :
    IF f.exc # "none" THEN f
    ELSE [f EXCEPT !.blocks = Append([f.blocks EXCEPT ![f.tip].children =
                                                          Append(@, Len(f.blocks) + 1)],
                                     [makeBlock(tag, line_number, offset + 1)
                                        EXCEPT !.parent = f.tip]),
                   !.tip = Len(f.blocks) + 1])

\* An add_line that drops the spaces at the offset before it adds the line
add_lineStripped(m, line, offset) ==
  IF m.exc # "none" THEN m
  ELSE IF m.tip = 0 THEN Raise(m, "AttributeError")
  ELSE IF ~m.blocks[m.tip].open THEN Raise(m, "ParseError")
  ELSE [m EXCEPT !.blocks[m.tip].strings =
                    Append(@, From(line, offset + Span(line, offset, {" "})))]

\* DocParser.add_line
add_line(m, line, offset) ==
  IF m.exc # "none" THEN m
  ELSE IF m.tip = 0 THEN Raise(m, "AttributeError")
  ELSE IF ~m.blocks[m.tip].open THEN Raise(m, "ParseError")
  ELSE [m EXCEPT !.blocks[m.tip].strings = Append(@, From(line, offset))]

RECURSIVE OutermostList(_, _, _)
\* The first loop of break_out_of_lists: the List nearest to the root among
\* b and its ancestors, 0 when there is none.
OutermostList(blocks, b, last_list) ==
  IF b = 0 THEN last_list
  ELSE OutermostList(blocks, blocks[b].parent, IF blocks[b].t = "List" THEN b ELSE last_list)

RECURSIVE FinalizeUpTo(_, _, _, _)
\* while block != stop: self.finalize(block, line_number); block = block.parent
FinalizeUpTo(m, block, stop, line_number) ==
  IF m.exc # "none" THEN m
  ELSE IF block = stop THEN m
  ELSE IF block = 0 THEN Raise(m, "AttributeError")
  ELSE FinalizeUpTo(finalize(m, block, line_number), m.blocks[block].parent, stop, line_number)

break_out_of_lists(m, block, line_number) ==
  With(OutermostList(m.blocks, block, 0), LAMBDA last_list :
    IF m.exc # "none" \/ last_list = 0 THEN m
    ELSE With(finalize(FinalizeUpTo(m, block, last_list, line_number), last_list, line_number),
              LAMBDA f :
                IF f.exc # "none" THEN f ELSE [f EXCEPT !.tip = f.blocks[last_list].parent]))

\* closeUnmatchedBlocks: m carries the locals of incorporate_line it uses
\* (oldtip, last_matched_container, already_done).
closeUnmatchedBlocks(m, line_number) ==
  IF m.exc # "none" THEN m
  ELSE IF m.already_done THEN m
  ELSE With(FinalizeUpTo(m, m.oldtip, m.last_matched_container, line_number), LAMBDA f :
         IF f.exc # "none" THEN f
         ELSE [f EXCEPT !.oldtip = m.last_matched_container, !.already_done = TRUE])

\* ------------------------------------------------------------------------
\* DocParser.incorporate_line.  m is the parser state together with the
\* locals of the call: container, offset, oldtip, last_matched_container,
\* blank, all_matched, the flag already_done of the closure, and stop for
\* the break of the loop that opens new containers.
\* ------------------------------------------------------------------------
CODE_INDENT == 4

\* first_nonspace as lines 1011-1017 compute it, and blank
FirstNonSpaceOrEnd(line, offset) ==
  IF FirstNonSpace(line, offset) = -1 THEN Len(line) ELSE FirstNonSpace(line, offset)
IsBlankFrom(line, offset) == FirstNonSpace(line, offset) = -1

RECURSIVE SkipFenceOffset(_, _, _)
\* while i > 0 and line[offset] == ' ': the offset reached, -1 for IndexError
SkipFenceOffset(line, offset, i) ==
  IF i <= 0 THEN offset
  ELSE IF offset >= Len(line) THEN -1
  ELSE IF CharAt(line, offset) = " " THEN SkipFenceOffset(line, offset + 1, i - 1)
  ELSE offset

RECURSIVE WalkContainers(_, _)
\* The loop of lines 1005-1069
WalkContainers(m, line) ==
  LET kids == m.blocks[m.container].children
      last_child == kids[Len(kids)]
      b == m.blocks[last_child]
      first_nonspace == FirstNonSpaceOrEnd(line, m.offset)
      blank == IsBlankFrom(line, m.offset)
      indent == first_nonspace - m.offset
      in == [m EXCEPT !.container = last_child, !.blank = blank]
      fail(x) == [x EXCEPT !.all_matched = FALSE, !.container = b.parent]
  IN  IF Len(kids) = 0 THEN m
      ELSE IF ~b.open THEN m
      ELSE IF b.t = "BlockQuote"
           THEN IF indent <= 3 /\ first_nonspace >= Len(line) THEN Raise(in, "IndexError")
                ELSE IF indent <= 3 /\ CharAt(line, first_nonspace) = ">"
                     THEN IF first_nonspace + 1 >= Len(line) THEN Raise(in, "IndexError")
                          ELSE WalkContainers(
                                 [in EXCEPT !.offset = IF CharAt(line, first_nonspace + 1) = " "
                                                       THEN first_nonspace + 2
                                                       ELSE first_nonspace + 1], line)
                ELSE fail(in)
      ELSE IF b.t = "ListItem"
           THEN IF indent >= b.list_data.marker_offset + b.list_data.padding
                THEN WalkContainers([in EXCEPT !.offset = m.offset + b.list_data.marker_offset
                                                           + b.list_data.padding], line)
                ELSE IF blank THEN WalkContainers([in EXCEPT !.offset = first_nonspace], line)
                ELSE fail(in)
      ELSE IF b.t = "IndentedCode"
           THEN IF indent >= CODE_INDENT
                THEN WalkContainers([in EXCEPT !.offset = m.offset + CODE_INDENT], line)
                ELSE IF blank THEN WalkContainers([in EXCEPT !.offset = first_nonspace], line)
                ELSE fail(in)
      ELSE IF b.t \in {"ATXHeader", "SetextHeader", "HorizontalRule"} THEN fail(in)
      ELSE IF b.t = "FencedCode"
           THEN IF SkipFenceOffset(line, m.offset, b.fence_offset) = -1 THEN Raise(in, "IndexError")
                ELSE WalkContainers(
                       [in EXCEPT !.offset = SkipFenceOffset(line, m.offset, b.fence_offset)], line)
      ELSE IF b.t = "HtmlBlock"
           THEN IF blank THEN fail(in) ELSE WalkContainers(in, line)
      ELSE IF b.t = "Paragraph"
           THEN IF blank THEN fail([in EXCEPT !.blocks[last_child].last_line_blank = TRUE])
                ELSE WalkContainers(in, line)
      ELSE WalkContainers(in, line)

\* re.match(r'^#{1,6}(?: +|$)', r): the length of the match, 0 for None
ATXMatch(r) ==
  LET n == Span(r, 0, {"#"})
  IN  IF n >= 1 /\ n <= 6 /\ (n = Len(r) \/ CharAt(r, n) = " ")
      THEN n + Span(r, n, {" "}) ELSE 0

\* (\\#) *#* *$ and  *#+ *$ match the whole of t
ATXTailEscaped(t) ==
  /\ Slice(t, 0, 2) = "\\#"
  /\ LET a == 2 + Span(t, 2, {" "})
         h == a + Span(t, a, {"#"})
     IN  h + Span(t, h, {" "}) = Len(t)
ATXTailPlain(t) ==
  LET a == Span(t, 0, {" "})
      h == a + Span(t, a, {"#"})
  IN  h > a /\ h + Span(t, h, {" "}) = Len(t)

\* re.sub(r'(?:(\\#) *#*| *#+) *$', '\g<1>', s): the text, or the exception
\* re.error that Python 2.7 raises for a reference to the unmatched group 1.
\* I holds the indices at which the expression matches.
ATXContent(s) ==
  With({ i \in 0..(Len(s) - 1) : ATXTailEscaped(From(s, i)) \/ ATXTailPlain(From(s, i)) },
       LAMBDA I :
         IF I = {} THEN [text |-> s, exc |-> "none"]
         ELSE IF ATXTailEscaped(From(s, MinOf(I)))
              THEN [text |-> Slice(s, 0, MinOf(I)) \o "\\#", exc |-> "none"]
         ELSE [text |-> Slice(s, 0, MinOf(I)), exc |-> "error"])

\* re.match(r'^`{3,}(?!.*`)|^~{3,}(?!.*~)', r): the length of the fence, 0 for None
FenceOpen(r) ==
  LET c == Peek(r, 0)
      n == Span(r, 0, {c})
  IN  IF c \in {BQ, "~"} /\ n >= 3 /\ FirstIndexOf(r, n, c) = -1 THEN n ELSE 0

\* re.match(r'^(?:`{3,}|~{3,})(?= *$)', r): the length of the fence, 0 for None
FenceClose(r) ==
  LET c == Peek(r, 0)
      n == Span(r, 0, {c})
  IN  IF c \in {BQ, "~"} /\ n >= 3 /\ n + Span(r, n, {" "}) = Len(r) THEN n ELSE 0

\* A setext test that a line of - never passes, as when the test of
\* reHrule came first
SetextMatchEquals(r) ==
  LET n == Span(r, 0, {"="})
  IN  n >= 1 /\ n + Span(r, n, {" "}) = Len(r)

\* re.match(r'^(?:=+|-+) *$', r)
SetextMatch(r) ==
  LET c == Peek(r, 0)
      n == Span(r, 0, {c})
  IN  c \in {"=", "-"} /\ n + Span(r, n, {" "}) = Len(r)

\* match_at(re.compile(r'^[ #`~*+_=<>0-9-]'), line, offset) is not None
MayStartContainer(line, offset) ==
  Peek(line, offset) \in ({" ", "#", BQ, "~", "*", "+", "_", "=", "<", ">", "-"} \cup Digits)

\* closeUnmatchedBlocks(self) and container = self.add_child(tag, ...), as
\* every branch that opens a block has them; closed is the state after
\* closeUnmatchedBlocks
open_child(closed, tag, line_number, offset) ==
  With(add_child(closed, tag, line_number, offset), LAMBDA a :
    IF a.exc # "none" THEN a ELSE [a EXCEPT !.container = a.tip])

\* One turn of the loop of lines 1094-1203, entered with its condition true.
\* in is the state with blank set, closed the state after
\* closeUnmatchedBlocks, rest the line from first_nonspace on.
OpenContainer(m, line, line_number) ==
  With([m EXCEPT !.blank = IsBlankFrom(line, m.offset)], LAMBDA in :
  With(closeUnmatchedBlocks(in, line_number), LAMBDA closed :
  With(FirstNonSpaceOrEnd(line, m.offset), LAMBDA first_nonspace :
  With(From(line, first_nonspace), LAMBDA rest :
    IF first_nonspace - m.offset >= CODE_INDENT
    THEN IF m.tip = 0 THEN Raise(in, "AttributeError")
         ELSE IF m.blocks[m.tip].t # "Paragraph" /\ ~in.blank
              THEN [open_child(closed, "IndentedCode", line_number, m.offset + CODE_INDENT)
                      EXCEPT !.offset = m.offset + CODE_INDENT]
         ELSE [in EXCEPT !.stop = TRUE]
    ELSE IF first_nonspace >= Len(line) THEN Raise(in, "IndexError")
    ELSE IF CharAt(line, first_nonspace) = ">"
    THEN IF first_nonspace + 1 >= Len(line) THEN Raise(in, "IndexError")
         ELSE With(IF CharAt(line, first_nonspace + 1) = " "
                   THEN first_nonspace + 2 ELSE first_nonspace + 1, LAMBDA off :
                [open_child(closed, "BlockQuote", line_number, off) EXCEPT !.offset = off])
    ELSE IF ATXMatch(rest) > 0
    THEN With(open_child(closed, "ATXHeader", line_number, first_nonspace), LAMBDA a :
         With(first_nonspace + ATXMatch(rest), LAMBDA off :
         With(ATXContent(From(line, off)), LAMBDA content :
           IF a.exc # "none" THEN a
           ELSE Raise([a EXCEPT !.offset = off, !.stop = TRUE,
                                !.blocks[a.tip].level = Span(rest, 0, {"#"}),
                                !.blocks[a.tip].strings =
                                   IF content.exc = "none" THEN <<content.text>> ELSE <<>>],
                      content.exc))))
    ELSE IF FenceOpen(rest) > 0
    THEN With(open_child(closed, "FencedCode", line_number, first_nonspace), LAMBDA a :
           IF a.exc # "none" THEN a
           ELSE [a EXCEPT !.offset = first_nonspace + FenceOpen(rest), !.stop = TRUE,
                          !.blocks[a.tip].fence_length = FenceOpen(rest),
                          !.blocks[a.tip].fence_char = CharAt(rest, 0),
                          !.blocks[a.tip].fence_offset = first_nonspace - m.offset])
    ELSE IF reHtmlBlockOpen(line, first_nonspace)
    THEN [open_child(closed, "HtmlBlock", line_number, first_nonspace) EXCEPT !.stop = TRUE]
    ELSE IF /\ m.blocks[m.container].t = "Paragraph"
            /\ Len(m.blocks[m.container].strings) = 1
            /\ SetextMatch(rest)
    THEN IF closed.exc # "none" THEN closed
         ELSE [closed EXCEPT !.blocks[m.container].t = "SetextHeader",
                             !.blocks[m.container].level = IF CharAt(rest, 0) = "=" THEN 1 ELSE 2,
                             !.offset = Len(line)]
    ELSE IF reHrule(rest)
    THEN [open_child(closed, "HorizontalRule", line_number, first_nonspace)
            EXCEPT !.offset = Len(line) - 1, !.stop = TRUE]
    ELSE With([parseListMarker(line, first_nonspace)
                 EXCEPT !.marker_offset = first_nonspace - m.offset], LAMBDA data :
      IF data.type = "None" THEN [in EXCEPT !.stop = TRUE]
      ELSE IF closed.exc # "none" THEN closed
      ELSE With(IF \/ closed.blocks[closed.container].t # "List"
                   \/ ~listsMatch(closed.blocks[closed.container].list_data, data)
                THEN With(open_child(closed, "List", line_number, first_nonspace), LAMBDA l :
                       IF l.exc # "none" THEN l ELSE [l EXCEPT !.blocks[l.tip].list_data = data])
                ELSE closed, LAMBDA list :
           With(add_child(list, "ListItem", line_number, first_nonspace), LAMBDA a :
             IF a.exc # "none" THEN a
             ELSE [a EXCEPT !.container = a.tip, !.blocks[a.tip].list_data = data,
                            !.offset = first_nonspace + data.padding])))))))

RECURSIVE OpenContainers(_, _, _)
\* The loop of lines 1094-1203
OpenContainers(m, line, line_number) ==
  IF m.exc # "none" THEN m
  ELSE IF m.blocks[m.container].t \in {"FencedCode", "IndentedCode", "HtmlBlock"} THEN m
  ELSE IF ~MayStartContainer(line, m.offset) THEN m
  ELSE With(OpenContainer(m, line, line_number), LAMBDA o :
         IF o.exc # "none" THEN o
         ELSE IF o.stop \/ acceptsLines(o.blocks[o.container].t) THEN o
         ELSE OpenContainers(o, line, line_number))

RECURSIVE ClearAncestorsBlank(_, _)
\* cont = container; while cont.parent: cont.parent.last_line_blank = False
ClearAncestorsBlank(blocks, b) ==
  IF blocks[b].parent = 0 THEN blocks
  ELSE ClearAncestorsBlank([blocks EXCEPT ![blocks[b].parent].last_line_blank = FALSE],
                           blocks[b].parent)

\* Lines 1205-1269: the text that remains at the offset goes to a block.
\* c is the state after closeUnmatchedBlocks, cont the container, marked
\* the state with last_line_blank set on the container and cleared on its
\* ancestors (lines 1232-1242).
PlaceText(m, line, line_number) ==
  With(FirstNonSpaceOrEnd(line, m.offset), LAMBDA first_nonspace :
  With(IsBlankFrom(line, m.offset), LAMBDA blank :
    IF m.exc # "none" THEN m
    ELSE IF m.tip # m.last_matched_container /\ ~blank /\ m.tip = 0
         THEN Raise(m, "AttributeError")
    ELSE IF /\ m.tip # m.last_matched_container
            /\ ~blank
            /\ m.blocks[m.tip].t = "Paragraph"
            /\ Len(m.blocks[m.tip].strings) > 0
         THEN add_line([m EXCEPT !.blank = blank], line, m.offset)
    ELSE
      With(closeUnmatchedBlocks(m, line_number), LAMBDA c :
        IF c.exc # "none" THEN c
        ELSE
          With(c.blocks[c.container], LAMBDA cont :
          With([c EXCEPT !.blank = blank,
                   !.blocks = ClearAncestorsBlank(
                      [c.blocks EXCEPT ![c.container].last_line_blank =
                          blank /\ ~(\/ cont.t \in {"BlockQuote", "FencedCode"}
                                     \/ (/\ cont.t = "ListItem"
                                         /\ Len(cont.children) = 0
                                         /\ cont.start_line = line_number))],
                      c.container)], LAMBDA marked :
            IF cont.t \in {"IndentedCode", "HtmlBlock"} THEN add_line(marked, line, m.offset)
            ELSE IF cont.t = "FencedCode"
                 THEN IF first_nonspace - m.offset <= 3 /\ first_nonspace >= Len(line)
                      THEN Raise(marked, "IndexError")
                      ELSE IF /\ first_nonspace - m.offset <= 3
                              /\ CharAt(line, first_nonspace) = cont.fence_char
                              /\ FenceClose(From(line, first_nonspace)) > cont.fence_length
                           THEN finalize(marked, c.container, line_number)
                      ELSE add_line(marked, line, m.offset)
            ELSE IF cont.t \in {"ATXHeader", "SetextHeader", "HorizontalRule"} THEN marked
            ELSE IF acceptsLines(cont.t) THEN add_line(marked, line, first_nonspace)
            ELSE IF blank THEN marked
            ELSE With(add_child(marked, "Paragraph", line_number, first_nonspace), LAMBDA a :
                   IF a.exc # "none" THEN a
                   ELSE add_line([a EXCEPT !.container = a.tip], line, first_nonspace)))))))

\* The parser state: the fields of DocParser and of its InlineParser that
\* outlive a call, and the exception in flight.
ParserState(blocks, tip, refmap, lnl, exc) ==
  [blocks |-> blocks, tip |-> tip, refmap |-> refmap, lnl |-> lnl, exc |-> exc]

\* DocParser.incorporate_line.  The state takes the locals of the call, the
\* walk sets last_matched_container (line 1071), and a second blank line in
\* a row ends the lists (lines 1089-1090).
incorporate_line(d, text, line_number) ==
  With(detab_line(text), LAMBDA line :
  With(WalkContainers([blocks |-> d.blocks, tip |-> d.tip, refmap |-> d.refmap,
                       lnl |-> d.lnl, exc |-> d.exc, container |-> 1, offset |-> 0,
                       oldtip |-> d.tip, last_matched_container |-> 0, blank |-> FALSE,
                       all_matched |-> TRUE, already_done |-> FALSE, stop |-> FALSE], line),
       LAMBDA w :
  With([w EXCEPT !.last_matched_container = w.container], LAMBDA m1 :
  With(IF m1.exc = "none" /\ m1.blank /\ m1.blocks[m1.container].last_line_blank
       THEN break_out_of_lists(m1, m1.container, line_number)
       ELSE m1, LAMBDA m2 :
  With(PlaceText(OpenContainers(m2, line, line_number), line, line_number), LAMBDA m4 :
    ParserState(m4.blocks, m4.tip, m4.refmap, m4.lnl, m4.exc))))))

RECURSIVE FinalizeAll(_, _)
\* while self.tip: self.finalize(self.tip, len(lines) - 1)
FinalizeAll(d, line_number) ==
  IF d.exc # "none" THEN d
  ELSE IF d.tip = 0 THEN d
  ELSE IF ~d.blocks[d.tip].open THEN Raise(d, "Hang")
  ELSE FinalizeAll(finalize(d, d.tip, line_number), line_number)

RECURSIVE Preorder(_, _)
RECURSIVE PreorderAll(_, _)
\* The blocks in the order in which process_inlines visits them
Preorder(blocks, b) == <<b>> \o PreorderAll(blocks, blocks[b].children)
PreorderAll(blocks, bs) ==
  IF Len(bs) = 0 THEN <<>> ELSE Preorder(blocks, Head(bs)) \o PreorderAll(blocks, Tail(bs))

RECURSIVE InlinesOf(_, _)
\* DocParser.process_inlines over the blocks of order
InlinesOf(d, order) ==
  IF d.exc # "none" \/ Len(order) = 0 THEN d
  ELSE IF d.blocks[Head(order)].t \in {"Paragraph", "SetextHeader", "ATXHeader"}
       THEN With(InlineParserParse(Strip(d.blocks[Head(order)].string_content),
                                   d.refmap, d.lnl), LAMBDA i :
              IF i.exc # "none" THEN [d EXCEPT !.lnl = i.lnl, !.exc = i.exc]
              ELSE InlinesOf([d EXCEPT !.lnl = i.lnl,
                                       !.blocks[Head(order)].inline_content = i.inl,
                                       !.blocks[Head(order)].string_content = ""],
                             Tail(order)))
  ELSE InlinesOf(d, Tail(order))

process_inlines(d) == InlinesOf(d, Preorder(d.blocks, 1))

\* Lines 1358-1360: the state in which parse starts, whatever came before
StartOfParse(lnl) == ParserState(<<makeBlock("Document", 1, 1)>>, 1, {}, lnl, "none")

\* An end of parse without the loop of lines 1364-1365
EndOfParseUnfinalized(d, nlines) == process_inlines(d)
\* Lines 1364-1369: the end of parse, after the last of nlines lines
EndOfParse(d, nlines) == process_inlines(FinalizeAll(d, nlines - 1))

RECURSIVE IncorporateAll(_, _, _)
\* for i, line in enumerate(lines): self.incorporate_line(line, i + 1)
IncorporateAll(d, ls, i) ==
  IF d.exc # "none" \/ i > Len(ls) THEN d
  ELSE IncorporateAll(incorporate_line(d, ls[i], i), ls, i + 1)

\* DocParser.parse on the lines ls, by a parser whose inline parser holds
\* label_nest_level lnl
Parse(ls, lnl) == EndOfParse(IncorporateAll(StartOfParse(lnl), ls, 1), Len(ls))

\* ------------------------------------------------------------------------
\* HtmlRenderer.  A render method returns the string html, or the exception
\* exc that left it.
\* ------------------------------------------------------------------------
in_tags(tag, attrs, contents, selfclosing) ==
  LET result[i \in 0..Len(attrs)] ==
        IF i = 0 THEN "<" \o tag
        ELSE result[i - 1] \o " " \o attrs[i][1] \o "=\"" \o attrs[i][2] \o "\""
  IN  IF contents # "" THEN result[Len(attrs)] \o ">" \o contents \o "</" \o tag \o ">"
      ELSE IF selfclosing THEN result[Len(attrs)] \o " />"
      ELSE result[Len(attrs)] \o "></" \o tag \o ">"

\* The four re.sub of either branch, each character of s by its replacement.
\* With preserve_entities a "&" stays when the text of an entity follows it.
escape(s, preserve_entities) ==
  LET sub[i \in 0..Len(s)] ==
        IF i = Len(s) THEN ""
        ELSE (IF CharAt(s, i) = "&"
              THEN (IF preserve_entities /\ reEntity(s, i) # -1 THEN "&" ELSE "&amp")
              ELSE IF CharAt(s, i) = "<" THEN "&lt"
              ELSE IF CharAt(s, i) = ">" THEN "&gt"
              ELSE IF CharAt(s, i) = "\"" THEN "&quote"
              ELSE CharAt(s, i)) \o sub[i + 1]
  IN  sub[0]

RECURSIVE render_inlines(_)
render_inline(inline) ==
  With(render_inlines(inline.kids), LAMBDA contents :
    \* inline.title: the Link that parse_autolink makes has no such attribute
    IF inline.t \in {"Link", "Image"} /\ ~inline.has_title
    THEN [html |-> "", exc |-> "AttributeError"]
    ELSE IF contents.exc # "none" THEN contents
    ELSE [exc |-> "none", html |->
      IF inline.t = "Str" THEN escape(inline.c, FALSE)
      ELSE IF inline.t = "Softbreak" THEN "\n"
      ELSE IF inline.t = "Hardbreak" THEN in_tags("br", <<>>, "", TRUE) \o "\n"
      ELSE IF inline.t = "Emph" THEN in_tags("em", <<>>, contents.html, FALSE)
      ELSE IF inline.t = "Strong" THEN in_tags("strong", <<>>, contents.html, FALSE)
      ELSE IF inline.t \in {"Html", "Entity"} THEN inline.c
      ELSE IF inline.t = "Link"
           THEN in_tags("a", <<<<"href", escape(inline.destination, TRUE)>>>>
                             \o (IF inline.title # ""
                                 THEN <<<<"title", escape(inline.title, TRUE)>>>> ELSE <<>>),
                        contents.html, FALSE)
      ELSE IF inline.t = "Image"
           THEN in_tags("img", <<<<"src", escape(inline.destination, TRUE)>>,
                                 <<"alt", escape(contents.html, FALSE)>>>>
                               \o (IF inline.title # ""
                                   THEN <<<<"title", escape(inline.title, TRUE)>>>> ELSE <<>>),
                        "", TRUE)
      ELSE IF inline.t = "Code" THEN in_tags("code", <<>>, escape(inline.c, FALSE), FALSE)
      ELSE ""])

render_inlines(inlines) ==
  IF Len(inlines) = 0 THEN [html |-> "", exc |-> "none"]
  ELSE With(render_inline(Head(inlines)), LAMBDA first :
         IF first.exc # "none" THEN first
         ELSE With(render_inlines(Tail(inlines)), LAMBDA rest :
                IF rest.exc # "none" THEN rest
                ELSE [html |-> first.html \o rest.html, exc |-> "none"]))

RECURSIVE render_blocks(_, _, _)
\* render_block on the block b of the arena blocks
render_block(blocks, b, in_tight_list) ==
  With(blocks[b], LAMBDA block :
  With(render_blocks(blocks, block.children,
                     IF block.t = "List" THEN block.tight
                     ELSE block.t = "ListItem" /\ in_tight_list), LAMBDA filling :
  With(render_inlines(block.inline_content), LAMBDA inlines :
    IF block.t = "List" /\ block.list_data.start \notin {-1, 0, 1}
    \* block.list_data.start.toString(): an int has no such attribute
    THEN [html |-> "", exc |-> "AttributeError"]
    \* len(info_words)[0]: an int has no item
    ELSE IF block.t = "FencedCode" THEN [html |-> "", exc |-> "TypeError"]
    ELSE IF filling.exc # "none" THEN filling
    ELSE IF inlines.exc # "none" THEN inlines
    ELSE [exc |-> "none", html |->
      IF block.t = "Document"
      THEN (IF filling.html = "" THEN "" ELSE filling.html \o "\n")
      ELSE IF block.t = "Paragraph"
           THEN (IF in_tight_list THEN inlines.html
                 ELSE in_tags("p", <<>>, inlines.html, FALSE))
      ELSE IF block.t = "BlockQuote"
           THEN in_tags("blockquote", <<>>,
                        IF filling.html = "" THEN "\n" ELSE "\n" \o filling.html \o "\n", FALSE)
      ELSE IF block.t = "ListItem" THEN in_tags("li", <<>>, Strip(filling.html), FALSE)
      ELSE IF block.t = "List"
           THEN in_tags(IF block.list_data.type = "Bullet" THEN "ul" ELSE "ol", <<>>,
                        "\n" \o filling.html \o "\n", FALSE)
      ELSE IF block.t \in {"ATXHeader", "SetextHeader"}
           THEN in_tags("h" \o CharAt(DigitChars, block.level), <<>>, inlines.html, FALSE)
      ELSE IF block.t = "IndentedCode"
           THEN in_tags("pre", <<>>,
                        in_tags("code", <<>>, escape(block.string_content, FALSE), FALSE), FALSE)
      ELSE IF block.t = "HtmlBlock" THEN block.string_content
      ELSE IF block.t = "HorizontalRule" THEN in_tags("hr", <<>>, "", TRUE)
      ELSE ""])))

\* The blocks bs rendered in turn and joined by blocksep
render_blocks(blocks, bs, in_tight_list) ==
  IF Len(bs) = 0 THEN [html |-> "", exc |-> "none"]
  ELSE With(render_block(blocks, Head(bs), in_tight_list), LAMBDA first :
         IF first.exc # "none" \/ Len(bs) = 1 THEN first
         ELSE With(render_blocks(blocks, Tail(bs), in_tight_list), LAMBDA rest :
                IF rest.exc # "none" THEN rest
                ELSE [html |-> first.html \o "\n" \o rest.html, exc |-> "none"]))

\* ------------------------------------------------------------------------
\* The state machine: one DocParser and one HtmlRenderer, as the test runner
\* keeps one reader and one writer, parsing one text after another and
\* rendering the tree that parse returns.  A text reaches incorporate_line as the
\* list of its lines (line 1361); any list of one line or more is the split
\* of some text.  The texts are the sequences over one of the line sets
\* below, of MaxLines lines at most.
\* ------------------------------------------------------------------------
Corpora ==
  { {"> quoted", "> still", "", "para"},
    {BQ \o BQ \o BQ \o "lang", "code", BQ \o BQ \o BQ, ""},
    {"[a]: /x \"t\"", "", "[a]", "[foo](bar \"baz\")"},
    {"- a", "+ b", "1. x", "  c", ""},
    {">", "  ", "~~~", "x\\"},
    {"[[", "x\\", "[a]: /x", ""},
    {"- a", "  - b", "    code", "", "para"},
    {"# h", "a", "===", "---", "<div>"},
    {"*foo*", "**foo**", "***foo***", "*foo**", "*a **b** c*"},
    {"a & b", "x < y > z", "say \"q\"", BQ \o "a<b" \o BQ},
    {"1. x", "2. y", "0. z", "1) w"},
    {"a" \o NUL \o "b", "# " \o NUL, "x", "&amp"},
    {"[a]: /x", "[A]: /y", "", "[ a ]"},
    {"- a", "- # h", "  ---", ""},
    {"-     code", "- a", "", "-"} }

\* The lines that may follow the lines read so far
NextLines(ls) ==
  {l \in UNION Corpora : \E c \in Corpora : l \in c /\ \A i \in 1..Len(ls) : ls[i] \in c}

VARIABLES
  blocks,            \* the blocks made since self.doc was last set; blocks[1] is self.doc
  tip,               \* self.tip, 0 when it is self.top
  refmap,            \* self.refmap
  label_nest_level,  \* self.inlineParser.label_nest_level
  lines,             \* the lines of the text that parse has incorporated
  pc,                \* "idle", "lines" inside the loop of parse, "done", "raised",
                     \* "rendered" when render_block has ended
  exc,               \* the exception that ended the last parse, "none" without one
  parses,            \* the number of calls of parse so far
  actual,            \* what render_block made of the tree: html, or the exception exc
  text               \* the text that parse was handed whole, "" while the lines
                     \* of the text are handed over one by one

vars == <<blocks, tip, refmap, label_nest_level, lines, pc, exc, parses, actual, text>>

Current == ParserState(blocks, tip, refmap, label_nest_level, "none")

\* DocParser.__init__ and InlineParser.__init__
Init ==
  /\ blocks = <<makeBlock("Document", 1, 1)>>
  /\ tip = 1
  /\ refmap = {}
  /\ label_nest_level = 0
  /\ lines = <<>>
  /\ pc = "idle"
  /\ exc = "none"
  /\ parses = 0
  /\ actual = [html |-> "", exc |-> "none"]
  /\ text = ""

Becomes(d, next_pc) ==
  /\ blocks' = d.blocks
  /\ tip' = d.tip
  /\ refmap' = d.refmap
  /\ label_nest_level' = d.lnl
  /\ exc' = d.exc
  /\ pc' = IF d.exc # "none" THEN "raised" ELSE next_pc

\* parse is called: lines 1358-1360
ParseBegin ==
  /\ pc \in {"idle", "done", "raised", "rendered"}
  /\ parses < MaxParses
  /\ Becomes(StartOfParse(label_nest_level), "lines")
  /\ lines' = <<>>
  /\ parses' = parses + 1
  /\ actual' = [html |-> "", exc |-> "none"]
  /\ UNCHANGED text

\* One turn of the loop of lines 1362-1363
IncorporateLine(l) ==
  /\ pc = "lines"
  /\ Len(lines) < MaxLines
  /\ Becomes(incorporate_line(Current, l, Len(lines) + 1), "lines")
  /\ lines' = Append(lines, l)
  /\ UNCHANGED <<parses, actual, text>>

\* The loop is over: lines 1364-1369
EndOfInput ==
  /\ pc = "lines"
  /\ Len(lines) >= 1
  /\ Becomes(EndOfParse(Current, Len(lines)), "done")
  /\ UNCHANGED <<lines, parses, actual, text>>

\* writer.render_block(reader.parse(markdown)) once parse has returned
Render ==
  /\ pc = "done"
  /\ actual' = render_block(blocks, 1, FALSE)
  /\ pc' = "rendered"
  /\ UNCHANGED <<blocks, tip, refmap, label_nest_level, lines, exc, parses, text>>

Next ==
  \/ ParseBegin
  \/ \E l \in NextLines(lines) : IncorporateLine(l)
  \/ EndOfInput
  \/ Render

Spec == Init /\ [][Next]_vars

\* ------------------------------------------------------------------------
\* The same parser handed whole texts: parse splits the text into its lines
\* itself.  The texts are the line sequences over SplitCorpus with one of the
\* three line terminators between the lines and, or not, after the last.
\* ------------------------------------------------------------------------

\* Line 1361: re.split(r'\r\n|\n|\r', re.sub(r'\n$', '', text)).  \n$ matches a
\* "\n" at the end of the text and a "\n" right before a "\n" at the end.
SplitLines(s) ==
  LET n == Len(s)
      cut == IF n >= 1 /\ CharAt(s, n - 1) = "\n"
             THEN (IF n >= 2 /\ CharAt(s, n - 2) = "\n" THEN n - 2 ELSE n - 1)
             ELSE n
      subbed == Slice(s, 0, cut)
      pieces[i \in 0..cut] ==
        LET k == i + Span(subbed, i, CharsOf(subbed) \ {"\r", "\n"})
        IN  IF k = cut THEN <<Slice(subbed, i, k)>>
            ELSE IF CharAt(subbed, k) = "\r" /\ k + 1 < cut /\ CharAt(subbed, k + 1) = "\n"
            THEN <<Slice(subbed, i, k)>> \o pieces[k + 2]
            ELSE <<Slice(subbed, i, k)>> \o pieces[k + 1]
  IN  pieces[0]

SplitCorpus == {"> a", "b", ""}

Terminators == {"\r\n", "\r", "\n"}

\* The parser as constructed, about to be handed one of the texts
SplitInit ==
  /\ blocks = <<makeBlock("Document", 1, 1)>>
  /\ tip = 1
  /\ refmap = {}
  /\ label_nest_level = 0
  /\ lines = <<>>
  /\ pc = "idle"
  /\ exc = "none"
  /\ parses = 0
  /\ actual = [html |-> "", exc |-> "none"]
  /\ text \in { Join(ls, eol) \o last :
                ls \in UNION { [1..n -> SplitCorpus] : n \in 1..MaxLines },
                eol \in Terminators, last \in {"", "\r\n", "\r", "\n"} }

\* parse(text), lines 1355-1369, as one step
ParseText ==
  /\ pc = "idle"
  /\ lines' = SplitLines(text)
  /\ Becomes(Parse(lines', label_nest_level), "done")
  /\ parses' = parses + 1
  /\ UNCHANGED <<actual, text>>

SplitSpec == SplitInit /\ [][ParseText]_vars

\* ------------------------------------------------------------------------
\* Properties
\* ------------------------------------------------------------------------

\* C1: for every text parse returns normally; no exception of any kind is
\* raised, whatever the lines contain.
ParseNeverRaises == exc = "none"

\* C2: every parse ends.  parse takes one turn of its loop for each line
\* and one step after the last, and no loop inside a step spins: not the
\* walk of the containers nor the loop that opens new ones, not add_child
\* on a tip that finalize leaves unchanged, not the loop that finalizes
\* until the tip is null, not the main loop of InlineParser.parse with a
\* cursor that stays put.  A loop that would spin is the outcome "Hang" of
\* the step.
ParseTerminates == exc # "Hang"

\* A parse has returned a tree for which add_child had to close blocks, the
\* last loop closed the rest and the inline loop made several inlines.
ParseTerminatesWitness ==
  /\ pc = "done"
  /\ Len(blocks[1].children) >= 2
  /\ \E b \in 1..Len(blocks) : blocks[b].t = "List"
  /\ \E b \in 1..Len(blocks) : Len(blocks[b].inline_content) >= 2

\* C3: in the tree that parse returns every block, the Document and every
\* descendant, has open = false.
ReturnedTreeIsClosed == pc = "done" => \A b \in 1..Len(blocks) : ~blocks[b].open

\* parse has returned a tree with a list item that holds a block
ReturnedTreeIsClosedWitness ==
  /\ pc = "done"
  /\ \E b \in 1..Len(blocks) : blocks[b].t = "ListItem" /\ Len(blocks[b].children) >= 1
  /\ \A b \in 1..Len(blocks) : ~blocks[b].open

\* C4: after any sequence of lines every child of a List is a ListItem whose
\* list_data has the type, the delimiter and the bullet_char of the List.
ListChildrenMatch ==
  \A b \in 1..Len(blocks) :
    blocks[b].t = "List" =>
      \A k \in 1..Len(blocks[b].children) :
        LET item == blocks[blocks[b].children[k]]
        IN  /\ item.t = "ListItem"
            /\ item.list_data.type = blocks[b].list_data.type
            /\ item.list_data.delimiter = blocks[b].list_data.delimiter
            /\ item.list_data.bullet_char = blocks[b].list_data.bullet_char

\* A List with two items, and after it a List of another bullet
ListChildrenMatchWitness ==
  \E b, c \in 1..Len(blocks) :
    /\ blocks[b].t = "List" /\ blocks[c].t = "List"
    /\ Len(blocks[b].children) >= 2
    /\ blocks[b].list_data.bullet_char # blocks[c].list_data.bullet_char

\* C5: a parser that has parsed other texts, also texts on which parse
\* raised, gives for a text the tree and the reference map that a new
\* DocParser gives for it.
ReuseEqualsFresh ==
  pc \in {"done", "raised"} =>
    LET fresh == Parse(lines, 0)
    IN  /\ exc = fresh.exc
        /\ blocks = fresh.blocks
        /\ refmap = fresh.refmap

\* C6: a bracketed label that the reference map does not hold raises
\* nothing and is emitted as the literal text, without a Link.
UnknownLabelIsLiteral ==
  /\ exc # "KeyError"
  /\ (pc \in {"done", "raised"} /\ lines = <<"[a]">>) =>
       /\ pc = "done"
       /\ blocks[2].inline_content = <<Inline("Str", "["), Inline("Str", "a"), Inline("Str", "]")>>

\* C7: the paragraph [foo](bar "baz") is parsed into one Link with the
\* destination bar, the title baz and the label Str foo.
InlineLinkParsed ==
  (pc \in {"done", "raised"} /\ lines = <<"[foo](bar \"baz\")">>) =>
    /\ pc = "done"
    /\ blocks[2].t = "Paragraph"
    /\ blocks[2].inline_content = <<LinkInline(<<Inline("Str", "foo")>>, "bar", "baz", TRUE)>>

\* C8: for [a]: /x "t", a blank line and [a], the first paragraph becomes a
\* ReferenceDef, the map gets the destination /x and the title t, and the
\* second paragraph is one Link to /x with the title t and the label Str a.
ReferenceExample ==
  (pc \in {"done", "raised"} /\ lines = <<"[a]: /x \"t\"", "", "[a]">>) =>
    /\ pc = "done"
    /\ Len(blocks) = 3
    /\ blocks[2].t = "ReferenceDef"
    /\ \E r \in refmap : r.destination = "/x" /\ r.title = "t"
    /\ blocks[3].t = "Paragraph"
    /\ blocks[3].inline_content = <<LinkInline(<<Inline("Str", "a")>>, "/x", "t", TRUE)>>

\* C9: for > quoted, > still, an empty line and para, the Document has two
\* children: a BlockQuote with one Paragraph of the text quoted, still, and
\* the Paragraph para.  A blank line met while a BlockQuote is open raises
\* nothing and leaves no BlockQuote open.
BlankLineEndsQuote ==
  /\ (/\ Len(lines) >= 2
      /\ \A i \in 1..Len(lines) : lines[i] \in {"> quoted", "> still", "", "para"}
      /\ lines[Len(lines)] = "")
     => /\ exc = "none"
        /\ \A b \in 1..Len(blocks) : blocks[b].t = "BlockQuote" => ~blocks[b].open
  /\ (pc \in {"done", "raised"} /\ lines = <<"> quoted", "> still", "", "para">>) =>
       /\ pc = "done"
       /\ Len(blocks) = 4
       /\ blocks[1].children = <<2, 4>>
       /\ blocks[2].t = "BlockQuote" /\ blocks[2].children = <<3>>
       /\ blocks[3].t = "Paragraph"
       /\ blocks[3].inline_content =
            <<Inline("Str", "quoted"), Inline("Softbreak", ""), Inline("Str", "still")>>
       /\ blocks[4].t = "Paragraph"
       /\ blocks[4].inline_content = <<Inline("Str", "para")>>

\* C10: for the fence of three backticks with lang, the line code and a
\* fence of three backticks, the FencedCode has the info lang and the
\* string_content code and a newline: the closing fence closes the block and
\* is no part of its body.
ClosingFenceEndsCode ==
  (pc \in {"done", "raised"} /\ lines = <<BQ \o BQ \o BQ \o "lang", "code", BQ \o BQ \o BQ>>) =>
    /\ pc = "done"
    /\ blocks[1].children = <<2>>
    /\ blocks[2].t = "FencedCode"
    /\ blocks[2].info = "lang"
    /\ blocks[2].string_content = "code\n"

\* C11: the paragraph ***foo*** is parsed into one inline, an Emph whose
\* only child is a Strong whose only child is Str foo, and is rendered as
\* <p><em><strong>foo</strong></em></p> and a newline: once the second
\* closer is matched, neither the wrapped inlines nor the Str of the first
\* closer stay behind the wrapper.
TripleDelimiterNests ==
  (pc \in {"done", "raised", "rendered"} /\ lines = <<"***foo***">>) =>
    /\ pc # "raised"
    /\ blocks[2].inline_content =
         <<[Inline("Emph", "") EXCEPT
              !.kids = <<[Inline("Strong", "") EXCEPT !.kids = <<Inline("Str", "foo")>>]>>]>>
    /\ pc = "rendered" => actual = [html |-> "<p><em><strong>foo</strong></em></p>\n", exc |-> "none"]

\* C12: an opener of one delimiter (of two) that can open, met by a closing
\* run of one delimiter or more (of two or more), becomes an Emph (a Strong)
\* whose children are the inlines parsed in between, in their order, and
\* these leave the list of siblings.  *foo* is rendered as
\* <p><em>foo</em></p> and **foo** as <p><strong>foo</strong></p>.  For a
\* text of such lines the inlines of its paragraph, written back with their
\* delimiters, are the text: nothing is lost, doubled or moved.
EmphasisWraps ==
  LET RECURSIVE Unparse(_)
      Unparse(inl) ==
        IF Len(inl) = 0 THEN ""
        ELSE (IF Head(inl).t = "Emph" THEN "*" \o Unparse(Head(inl).kids) \o "*"
              ELSE IF Head(inl).t = "Strong" THEN "**" \o Unparse(Head(inl).kids) \o "**"
              ELSE IF Head(inl).t = "Softbreak" THEN "\n"
              ELSE Head(inl).c) \o Unparse(Tail(inl))
      em(kids) == [Inline("Emph", "") EXCEPT !.kids = kids]
      strong(kids) == [Inline("Strong", "") EXCEPT !.kids = kids]
  IN  (/\ pc \in {"done", "raised", "rendered"}
       /\ Len(lines) >= 1
       /\ \A i \in 1..Len(lines) : lines[i] \in {"*foo*", "**foo**", "*foo**", "*a **b** c*"}) =>
        /\ pc # "raised"
        /\ Len(blocks) = 2
        /\ Unparse(blocks[2].inline_content) = Join(lines, "\n")
        /\ lines = <<"*foo*">> =>
             /\ blocks[2].inline_content = <<em(<<Inline("Str", "foo")>>)>>
             /\ pc = "rendered" => actual = [html |-> "<p><em>foo</em></p>\n", exc |-> "none"]
        /\ lines = <<"**foo**">> =>
             /\ blocks[2].inline_content = <<strong(<<Inline("Str", "foo")>>)>>
             /\ pc = "rendered" => actual = [html |-> "<p><strong>foo</strong></p>\n", exc |-> "none"]
        /\ lines = <<"*foo**">> =>
             blocks[2].inline_content = <<em(<<Inline("Str", "foo")>>), Inline("Str", "*")>>
        /\ lines = <<"*a **b** c*">> =>
             blocks[2].inline_content =
               <<em(<<Inline("Str", "a "), strong(<<Inline("Str", "b")>>), Inline("Str", " c")>>)>>

\* Two lines of emphasis have been parsed into one paragraph and rendered
EmphasisWrapsWitness ==
  /\ pc = "rendered"
  /\ lines = <<"*foo**", "**foo**">>
  /\ actual = [html |-> "<p><em>foo</em>*\n<strong>foo</strong></p>\n", exc |-> "none"]

\* C13: escape replaces every &, <, > and " of its input by &amp; &lt; &gt;
\* and &quot; each with its semicolon, for the literal of every Str and Code
\* that is rendered; the paragraph a & b is rendered as <p>a &amp; b</p>.
EscapeReplaces ==
  LET ref(c) == IF c = "&" THEN "&amp;" ELSE IF c = "<" THEN "&lt;"
                ELSE IF c = ">" THEN "&gt;" ELSE IF c = "\"" THEN "&quot;" ELSE c
      escaped(s) == LET e[i \in 0..Len(s)] ==
                          IF i = Len(s) THEN "" ELSE ref(CharAt(s, i)) \o e[i + 1]
                    IN  e[0]
  IN  /\ \A b \in 1..Len(blocks) : \A i \in 1..Len(blocks[b].inline_content) :
           LET inline == blocks[b].inline_content[i]
           IN  inline.t \in {"Str", "Code"} => escape(inline.c, FALSE) = escaped(inline.c)
      /\ (pc = "rendered" /\ lines = <<"a & b">>) =>
           actual = [html |-> "<p>a &amp; b</p>\n", exc |-> "none"]

\* C14: an ordered List is rendered without raising, as <ol> with no start
\* attribute exactly when its start number is 1 and as <ol start="N">, N in
\* decimal, for every other start number, 0 and 2 and more included.  The
\* List is the first block of the document and its start has one digit.
OrderedListStart ==
  (/\ pc = "rendered"
   /\ Len(blocks) >= 2
   /\ blocks[2].t = "List"
   /\ blocks[2].list_data.type = "Ordered"
   /\ blocks[2].list_data.start \in 0..9) =>
    LET tag == IF blocks[2].list_data.start = 1 THEN "<ol>"
               ELSE "<ol start=\"" \o CharAt(DigitChars, blocks[2].list_data.start) \o "\">"
    IN  /\ actual.exc = "none"
        /\ Slice(actual.html, 0, Len(tag)) = tag

\* C15: two texts that differ only in which line terminator is used (\r\n, \r
\* or \n), the terminator of the last line included, are split into the same
\* lines and parse to the same tree.
TerminatorsSplitAlike ==
  pc \in {"done", "raised"} =>
    \A ls \in UNION { [1..n -> SplitCorpus] : n \in 1..MaxLines },
       eol \in Terminators, last \in {""} \cup Terminators :
      text = Join(ls, eol) \o last =>
        \A eol2 \in Terminators, last2 \in (IF last = "" THEN {""} ELSE Terminators) :
          With(SplitLines(Join(ls, eol2) \o last2), LAMBDA ls2 :
            /\ ls2 = lines
            /\ With(Parse(ls2, 0), LAMBDA d : d.blocks = blocks /\ d.exc = exc))

\* C16: a NUL of the input never reaches the inline parser: no text of an
\* inline of the tree that parse returns holds a NUL.
NulNeverInInlines ==
  pc \in {"done", "rendered"} =>
    \A i \in 1..Len(blocks) :
      \A j \in 1..Len(blocks[i].inline_content) :
        NUL \notin CharsOf(blocks[i].inline_content[j].c)

\* C17: in the tree that parse returns for a text of N lines every block has
\* 1 <= start_line <= end_line <= N.
LineSpansInText ==
  pc \in {"done", "rendered"} =>
    \A i \in 1..Len(blocks) :
      /\ 1 <= blocks[i].start_line
      /\ blocks[i].start_line <= blocks[i].end_line
      /\ blocks[i].end_line <= Len(lines)

LabelVariantsShareKey ==
  /\ \A e \in refmap : normalize_reference(e.label) = e.label
  /\ \A def \in {"[a]: /x", "[A]: /y"} :
       (parses = 1 /\ pc \in {"done", "raised"} /\ lines = <<def, "", "[ a ]">>) =>
         /\ exc = "none"
         /\ Len(blocks) = 3
         /\ Len(blocks[3].inline_content) = 1
         /\ blocks[3].inline_content[1].t = "Link"
         /\ blocks[3].inline_content[1].destination = (IF def = "[a]: /x" THEN "/x" ELSE "/y")

\* C20: in the tree that parse returns a List is tight whenever no line
\* between its first and its last line is blank, whatever its items hold;
\* and it is loose only if an item that is not the last, or a child of an
\* item that is not the last child, ends with a blank line.  The last line
\* of a block is the last line that is not blank before the next block.
ListTightness ==
  LET RECURSIVE Bound(_)
      Bound(b) ==
        IF b = 1 THEN Len(lines)
        ELSE LET sibs == blocks[blocks[b].parent].children
                 k == CHOOSE k \in 1..Len(sibs) : sibs[k] = b
             IN  IF k < Len(sibs) THEN blocks[sibs[k + 1]].start_line - 1
                 ELSE Bound(blocks[b].parent)
      NoInnerBlank(b) ==
        \A k \in blocks[b].start_line..Bound(b) :
          is_blank(lines[k]) => \A k2 \in k..Bound(b) : is_blank(lines[k2])
      Loose(b) ==
        \E i \in 1..Len(blocks[b].children) :
          \/ i # Len(blocks[b].children) /\ endsWithBlankLine(blocks, blocks[b].children[i])
          \/ \E j \in 1..(Len(blocks[blocks[b].children[i]].children) - 1) :
                endsWithBlankLine(blocks, blocks[blocks[b].children[i]].children[j])
  IN  pc \in {"done", "rendered"} =>
        \A b \in 1..Len(blocks) :
          blocks[b].t = "List" =>
            /\ NoInnerBlank(b) => blocks[b].tight
            /\ ~blocks[b].tight => Loose(b)

InlinesAfterFinalize ==
  /\ pc = "lines" => \A b \in 1..Len(blocks) : blocks[b].inline_content = <<>>
  /\ (\E b \in 1..Len(blocks) : blocks[b].inline_content # <<>>) =>
       \A b \in 1..Len(blocks) : ~blocks[b].open
  /\ (parses = 1 /\ pc \in {"done", "raised"} /\ lines = <<"[a]", "", "[a]: /x \"t\"">>) =>
       /\ exc = "none"
       /\ blocks[2].t = "Paragraph"
       /\ Len(blocks[2].inline_content) = 1
       /\ blocks[2].inline_content[1].t = "Link"
       /\ blocks[2].inline_content[1].destination = "/x"
       /\ blocks[3].t = "ReferenceDef"

InlinesAfterFinalizeWitness ==
  /\ pc = "done"
  /\ lines = <<"[a]", "", "[a]: /x \"t\"">>
  /\ blocks[2].inline_content[1].t = "Link"

\* C23: parse strips one trailing "\n" and no more before it splits: a text
\* X \o "\n\n" is read as the lines of X and one empty line after them, a
\* text X \o "\n" as the lines of X, for every X that does not end in "\n".
OneNewlineStripped ==
  LET n == Len(text)
      EndsIn(s, k) == Len(s) >= k /\ \A i \in 1..k : CharAt(s, Len(s) - i) = "\n"
  IN  pc \in {"done", "raised"} =>
        /\ (EndsIn(text, 2) /\ ~EndsIn(text, 3)) =>
             lines = SplitLines(Slice(text, 0, n - 2)) \o <<"">>
        /\ (EndsIn(text, 1) /\ ~EndsIn(text, 2)) =>
             lines = SplitLines(Slice(text, 0, n - 1))

\* C24: parse_reference applied twice to one definition text, with the map
\* the parser holds, returns the same length both times, and the map after
\* the second call is the map after the first.
ReferenceTwiceSame ==
  \A s \in {"[a]: /x", "[A]: /y", "[a]: /x \"t\""} :
    With(parse_reference(s, refmap, label_nest_level), LAMBDA first :
      With(parse_reference(s, first.refmap, first.lnl), LAMBDA second :
        /\ second.r = first.r
        /\ second.refmap = first.refmap))

\* C25: when incorporate_line reads a blank line and last_line_blank is
\* already true on the deepest container the line matches, every List on the
\* path from that container to the Document is closed in the call, the tip
\* becomes the parent of the outermost of them, and nothing of the line is
\* added to a block: no block gets a string and no block is made.
SecondBlankBreaksOut ==
  [][ (pc = "lines" /\ pc' = "lines" /\ Len(lines') = Len(lines) + 1) =>
        With(WalkContainers([blocks |-> blocks, tip |-> tip, refmap |-> refmap,
                             lnl |-> label_nest_level, exc |-> "none", container |-> 1,
                             offset |-> 0, oldtip |-> tip, last_matched_container |-> 0,
                             blank |-> FALSE, all_matched |-> TRUE, already_done |-> FALSE,
                             stop |-> FALSE], detab_line(lines'[Len(lines')])),
             LAMBDA w :
               (w.exc = "none" /\ w.blank /\ w.blocks[w.container].last_line_blank
                  /\ OutermostList(blocks, w.container, 0) # 0) =>
                 /\ tip' = blocks[OutermostList(blocks, w.container, 0)].parent
                 /\ ~blocks'[OutermostList(blocks, w.container, 0)].open
                 /\ Len(blocks') = Len(blocks)
                 /\ \A b \in 1..Len(blocks) :
                       /\ blocks'[b].strings = blocks[b].strings
                       /\ (blocks[b].t = "List" /\ blocks[b].open) => ~blocks'[b].open) ]_vars

\* C26: a list marker line whose marker differs from the open List in type,
\* delimiter or bullet character closes that List, with its tight flag
\* computed, and opens a new List beside it for the item; a marker equal in
\* the three adds the ListItem to the open List and opens no List.  The
\* texts are two marker lines, the second read last.
MarkerMismatchClosesList ==
  LET markers == {"- a", "+ b", "1. x", "2. y", "0. z", "1) w"}
      Kind(l) == IF CharAt(l, 0) \in Digits THEN CharAt(l, 1) ELSE CharAt(l, 0)
  IN  (pc = "lines" /\ Len(lines) = 2 /\ lines[1] \in markers /\ lines[2] \in markers) =>
        /\ exc = "none"
        /\ blocks[2].t = "List"
        /\ IF Kind(lines[1]) = Kind(lines[2])
           THEN /\ blocks[1].children = <<2>>
                /\ blocks[2].open
                /\ Len(blocks[2].children) = 2
                /\ \A i \in 1..2 : blocks[blocks[2].children[i]].t = "ListItem"
                /\ \A b \in 3..Len(blocks) : blocks[b].t # "List"
           ELSE /\ Len(blocks[1].children) = 2
                /\ blocks[1].children[1] = 2
                /\ ~blocks[2].open
                /\ blocks[2].tight
                /\ Len(blocks[2].children) = 1
                /\ With(blocks[blocks[1].children[2]], LAMBDA new :
                      /\ new.t = "List"
                      /\ new.open
                      /\ new.start_line = 2
                      /\ Len(new.children) = 1
                      /\ blocks[new.children[1]].t = "ListItem")

MarkerMismatchClosesListWitness ==
  /\ pc = "lines"
  /\ lines = <<"1. x", "1) w">>
  /\ Len(blocks[1].children) = 2
  /\ ~blocks[2].open
  /\ blocks[2].tight

\* C27: parseListMarker computes the padding of an item from the text M of
\* its marker and the number S of spaces after it: |M| - S + 1 when S >= 5,
\* S = 0 or the item is blank after the marker, |M| + S otherwise.  The
\* items are those of a List that is a child of the Document.
PaddingAsStated ==
  \A b \in 1..Len(blocks) :
    (blocks[b].t = "ListItem" /\ blocks[blocks[b].parent].parent = 1) =>
      LET rest == From(detab_line(lines[blocks[b].start_line]), blocks[b].list_data.marker_offset)
          M == IF CharAt(rest, 0) \in Digits THEN Span(rest, 0, Digits) + 1 ELSE 1
          S == Span(rest, M, {" "})
      IN  blocks[b].list_data.padding =
            IF S >= 5 \/ S = 0 \/ M + S = Len(rest) THEN M - S + 1 ELSE M + S

\* C27 as the code has it: the padding is |M| + 1 when S >= 5, S = 0 or the
\* item is blank after the marker, and |M| + S otherwise; a later line
\* continues the item when its indent is the padding at least, and is cut
\* by the padding then.
PaddingOfMarker ==
  /\ \A b \in 1..Len(blocks) :
       (blocks[b].t = "ListItem" /\ blocks[blocks[b].parent].parent = 1) =>
         LET rest == From(detab_line(lines[blocks[b].start_line]),
                          blocks[b].list_data.marker_offset)
             M == IF CharAt(rest, 0) \in Digits THEN Span(rest, 0, Digits) + 1 ELSE 1
             S == Span(rest, M, {" "})
         IN  blocks[b].list_data.padding =
               IF S >= 5 \/ S = 0 \/ M + S = Len(rest) THEN M + 1 ELSE M + S
  /\ (pc = "lines" /\ lines = <<"-     code">>) =>
       (blocks[3].t = "ListItem" /\ blocks[3].list_data.padding = 2)
  /\ (pc = "lines" /\ lines = <<"- a", "  c">>) => blocks[4].strings = <<"a", "c">>
  /\ (pc = "lines" /\ lines = <<"1. x", "  c">>) => blocks[4].strings = <<"x", "  c">>

PaddingOfMarkerWitness ==
  /\ pc = "lines"
  /\ lines = <<"-     code", "-">>
  /\ Len(blocks[2].children) = 2
  /\ \A i \in 1..2 : blocks[blocks[2].children[i]].list_data.padding = 2

\* C28: when the walk of incorporate_line ends above the tip, the line is
\* not blank from the offset the walk reached, the line opens no block and
\* the tip is a Paragraph with a string, the call adds the line from that
\* offset on to the strings of the tip and changes nothing else: the blocks
\* are the same in every other field, open ones stay open, the tip, the
\* reference map and label_nest_level stay.
LazyLineOnlyAppends ==
  [][ (pc = "lines" /\ pc' = "lines" /\ Len(lines') = Len(lines) + 1) =>
        With(detab_line(lines'[Len(lines')]), LAMBDA line :
        With(WalkContainers([blocks |-> blocks, tip |-> tip, refmap |-> refmap,
                             lnl |-> label_nest_level, exc |-> "none", container |-> 1,
                             offset |-> 0, oldtip |-> tip, last_matched_container |-> 0,
                             blank |-> FALSE, all_matched |-> TRUE, already_done |-> FALSE,
                             stop |-> FALSE], line),
             LAMBDA w :
               (/\ w.exc = "none"
                /\ tip # 0
                /\ w.container # tip
                /\ ~IsBlankFrom(line, w.offset)
                /\ Len(blocks') = Len(blocks)
                /\ blocks[tip].t = "Paragraph"
                /\ Len(blocks[tip].strings) > 0) =>
                 /\ blocks' = [blocks EXCEPT ![tip].strings = Append(@, From(line, w.offset))]
                 /\ tip' = tip
                 /\ refmap' = refmap
                 /\ label_nest_level' = label_nest_level
                 /\ exc' = "none")) ]_vars

LazyLineOnlyAppendsWitness ==
  /\ pc = "lines"
  /\ lines = <<"> quoted", "para">>
  /\ tip = 3
  /\ blocks[2].t = "BlockQuote"
  /\ blocks[2].open
  /\ blocks[3].strings = <<"quoted", "para">>
  /\ Len(blocks) = 3

\* C29: a line of = or of - with spaces after it at most turns the last
\* matched container into a SetextHeader, of level 1 for = and 2 for -,
\* when that container is a Paragraph of one line and only then; the test
\* comes before that of reHrule.  After a Paragraph of one line --- gives a
\* header of level 2; after one of two lines --- closes it and opens a
\* HorizontalRule, and === is one more string of it.
SetextBeforeHrule ==
  /\ \A b \in 1..Len(blocks) :
       blocks[b].t = "SetextHeader" =>
         /\ Len(blocks[b].strings) = 1
         /\ Len(blocks[b].children) = 0
         /\ blocks[b].start_line < Len(lines)
         /\ LET u == detab_line(lines[blocks[b].start_line + 1])
            IN  \E k \in 0..(Len(u) - 1) :
                  /\ SetextMatch(From(u, k))
                  /\ blocks[b].level = IF CharAt(u, k) = "=" THEN 1 ELSE 2
  /\ (pc = "lines" /\ Len(lines) = 2 /\ lines[1] = "a" /\ lines[2] \in {"===", "---"}) =>
       /\ Len(blocks) = 2
       /\ blocks[2].t = "SetextHeader"
       /\ blocks[2].strings = <<"a">>
       /\ blocks[2].level = IF lines[2] = "===" THEN 1 ELSE 2
  /\ (pc = "lines" /\ lines = <<"a", "a", "---">>) =>
       /\ Len(blocks) = 3
       /\ blocks[2].t = "Paragraph"
       /\ ~blocks[2].open
       /\ blocks[2].strings = <<"a", "a">>
       /\ blocks[3].t = "HorizontalRule"
       /\ blocks[3].parent = 1
  /\ (pc = "lines" /\ lines = <<"a", "a", "===">>) =>
       /\ Len(blocks) = 2
       /\ blocks[2].t = "Paragraph"
       /\ blocks[2].open
       /\ blocks[2].strings = <<"a", "a", "===">>
  /\ (pc = "lines" /\ lines = <<"# h", "===">>) =>
       /\ blocks[2].t = "ATXHeader"
       /\ blocks[3].t = "Paragraph"
       /\ blocks[3].strings = <<"===">>

SetextBeforeHruleWitness ==
  /\ pc = "lines"
  /\ lines = <<"a", "---">>
  /\ blocks[2].t = "SetextHeader"
  /\ blocks[2].level = 2
  /\ tip = 2

\* C30: an Entity is made only of text that its terminator ends, and its
\* content is the text matched with the terminator, so the content never
\* ends in a letter or a digit; the text &amp with nothing after it gives
\* no Entity.
EntityIsTerminated ==
  \A b \in 1..Len(blocks) :
    \A i \in 1..Len(blocks[b].inline_content) :
      blocks[b].inline_content[i].t = "Entity" =>
        CharAt(blocks[b].inline_content[i].c,
               Len(blocks[b].inline_content[i].c) - 1) \notin Alnum

\* C31: a Paragraph that finalize has closed holds no line that begins with
\* a space in its string_content, the lines added by lazy continuation with
\* their indentation included.
NoLeadingSpaceInParagraph ==
  \A b \in 1..Len(blocks) :
    (blocks[b].t = "Paragraph" /\ ~blocks[b].open) =>
      \A i \in 0..(Len(blocks[b].string_content) - 1) :
        CharAt(blocks[b].string_content, i) = " " =>
          (i > 0 /\ CharAt(blocks[b].string_content, i - 1) # "\n")

\* C32: no text makes add_line raise ParseError: the tip is open at every
\* call of add_line in incorporate_line, so neither the parse in progress
\* nor a parse that has ended has this exception.
AddLineNeverRaises ==
  /\ exc # "ParseError"
  /\ actual.exc # "ParseError"

\* add_line has been called three times, the last time after
\* break_out_of_lists closed the block the line was matched to
AddLineNeverRaisesWitness ==
  /\ pc = "lines"
  /\ exc = "none"
  /\ lines = <<"-     code", "", "">>
  /\ blocks[4].t = "IndentedCode"
  /\ ~blocks[4].open
  /\ blocks[4].strings = <<"code", "">>
  /\ tip = 1
  /\ blocks[tip].open

\* C33: in one document a paragraph that is the definition [a]: /x and
\* nothing else becomes a ReferenceDef and its label enters the reference
\* map, whatever paragraphs were finalized before it, one whose label scan
\* failed on an unclosed bracket included.  The parser is in its first
\* parse, the definition is the last paragraph of the text, and the lines
\* before it are [[, the definition and the empty line.
DefinitionSeenAfterAnyParagraph ==
  (/\ pc \in {"done", "raised"}
   /\ parses = 1
   /\ Len(lines) >= 1
   /\ lines[Len(lines)] = "[a]: /x"
   /\ (Len(lines) > 1 => lines[Len(lines) - 1] = "")
   /\ \A i \in 1..Len(lines) : lines[i] \in {"[[", "", "[a]: /x"}) =>
     /\ HasRef(refmap, "[A]")
     /\ blocks[Len(blocks)].t = "ReferenceDef"

\* C34: add_line adds a line to a Paragraph, an IndentedCode, a FencedCode
\* or an HtmlBlock only: after any lines the Document and every BlockQuote,
\* List and ListItem have no strings, also when a second blank line in an
\* IndentedCode under a list makes break_out_of_lists run before the line
\* is added.
ContainersHoldNoStrings ==
  \A b \in 1..Len(blocks) :
    blocks[b].t \in {"Document", "BlockQuote", "List", "ListItem"} =>
      blocks[b].strings = <<>>
====
